---- MODULE Spec2Model ----
(***************************************************************************)
(* A model of the two-stage shader compiler of spirv-py:                   *)
(*   - the front end, src/pyshader/py.py (PyBytecode2Bytecode), which      *)
(*     turns Python bytecode into the normalized shader bytecode (NSB);    *)
(*   - the back end, src/python_shader/_generator_bc.py                    *)
(*     (Bytecode2SpirVGenerator), which turns NSB into SPIR-V.             *)
(*                                                                         *)
(* Strings that the code builds by formatting are modelled as tokens       *)
(* [p |-> prefix, n |-> number]: str(7) is Tok("", 7), f"L{3}" is          *)
(* Tok("L", 3), f"Lh{1}" is Tok("Lh", 1), a plain name "x" is Str("x").    *)
(* The rendering prefix + digits is injective on the strings the compiler  *)
(* builds, so token equality is string equality.                           *)
(***************************************************************************)
EXTENDS Integers, Sequences, FiniteSets, TLC

(***************************************************************************)
(* Generic helpers                                                         *)
(***************************************************************************)
Tok(p, n) == [p |-> p, n |-> n]
Str(s) == Tok(s, -1)

\* The label of the root branch, "" (_generator_bc.py line 71), and the
\* initial cur_block_label of the pre-pass (line 77).
EmptyLabel == Str("")

Op0(name) == [op |-> name, args |-> <<>>]
Op1(name, a) == [op |-> name, args |-> <<a>>]
Op2(name, a, b) == [op |-> name, args |-> <<a, b>>]
Op3(name, a, b, c) == [op |-> name, args |-> <<a, b, c>>]

\* dict.get(key, default) on a function used as a Python dict
Get(d, k, default) == IF k \in DOMAIN d THEN d[k] ELSE default
\* d[k] = v
Put(d, k, v) == [x \in (DOMAIN d) \cup {k} |-> IF x = k THEN v ELSE d[x]]
EmptyDict == [x \in {} |-> 0]

Range(s) == {s[i] : i \in 1..Len(s)}
\* every ordering of a finite set, as sequences without repetition
Orderings(S) == {s \in [1..Cardinality(S) -> S] : \A i, j \in 1..Cardinality(S) : i # j => s[i] # s[j]}

RECURSIVE Concat(_)
Concat(ss) == IF Len(ss) = 0 THEN <<>> ELSE Head(ss) \o Concat(Tail(ss))

(***************************************************************************)
(* Bounds of the model                                                     *)
(***************************************************************************)
\* NSB ops fed to the back end in the control-flow specification
MaxOps == 7
\* distinct labels the fed NSB may use
NumLabels == 3

(***************************************************************************)
(* State                                                                   *)
(*                                                                         *)
(* mode      : which part of the compiler the specification exercises      *)
(* converter : the PyBytecode2Bytecode object, <<>> where only the back    *)
(*             end or a pass runs                                          *)
(* pc        : "convert" while the front end runs, "generate" while the    *)
(*             back end dispatches, "done" after the last op or an error   *)
(* result    : "running", "ok", or the kind of the exception raised        *)
(* _opcodes  : the NSB: the front end's self._opcodes, which dump() hands  *)
(*             to the back end as `bytecode`                               *)
(* ip        : the position of the back end's dispatch loop in the NSB     *)
(* The other variables are the fields of Bytecode2SpirVGenerator.          *)
(***************************************************************************)
VARIABLES mode, pc, result, _opcodes, ip, converter,
          _stack, _name_ids, _name_variables,
          _need_name_var_save, _need_name_var_load,
          _labels, branches, _current_branch,
          placeholders, functions, next_id,
          iodicts, _slotmap, _constants

bevars == <<_stack, _name_ids, _name_variables, _need_name_var_save,
            _need_name_var_load, _labels, branches, _current_branch,
            placeholders, functions, next_id, iodicts, _slotmap,
            _constants>>
vars == <<mode, pc, result, _opcodes, ip, converter, bevars>>

(***************************************************************************)
(* The generator object, as a record of its fields, so that a handler is   *)
(* an operator from the object before the call to the object after it.     *)
(* An exception is the field result leaving "running": the fields keep     *)
(* what the handler had already changed when it raised.                    *)
(***************************************************************************)
Self == [result |-> result, _stack |-> _stack, _name_ids |-> _name_ids,
         _name_variables |-> _name_variables,
         _need_name_var_save |-> _need_name_var_save,
         _need_name_var_load |-> _need_name_var_load,
         _labels |-> _labels, branches |-> branches,
         _current_branch |-> _current_branch,
         placeholders |-> placeholders, functions |-> functions,
         next_id |-> next_id, iodicts |-> iodicts, _slotmap |-> _slotmap,
         _constants |-> _constants]

Commit(g) ==
    /\ result' = g.result
    /\ _stack' = g._stack
    /\ _name_ids' = g._name_ids
    /\ _name_variables' = g._name_variables
    /\ _need_name_var_save' = g._need_name_var_save
    /\ _need_name_var_load' = g._need_name_var_load
    /\ _labels' = g._labels
    /\ branches' = g.branches
    /\ _current_branch' = g._current_branch
    /\ placeholders' = g.placeholders
    /\ functions' = g.functions
    /\ next_id' = g.next_id
    /\ iodicts' = g.iodicts
    /\ _constants' = g._constants
    /\ _slotmap' = g._slotmap

Raise(g, kind) == [g EXCEPT !.result = kind]

\* words of an instruction: an id, a word placeholder, a literal
Id(n) == Tok("id", n)
Ph(k) == Tok("ph", k)
Lit(n) == Tok("", n)
Ins(opcode, words) == [opcode |-> opcode, words |-> words]

\* a value handle (ValueId with its type) or an access handle (VariableAccessId)
Value(id, type) == [kind |-> "value", id |-> id, type |-> type]
Access(id, type) == [kind |-> "access", id |-> id, type |-> type]

\* _types.Scalar and _types.Vector: a type is a record, so that equal
\* types are one type
Scalar(subtype) == [shape |-> "scalar", subtype |-> subtype, cols |-> 1, rows |-> 1]
Vector(length, subtype) == [shape |-> "vector", subtype |-> subtype, cols |-> length, rows |-> 1]

\* obtain_type_id: types are interned, the word of a type names it
TypeId(type) == Tok(type.subtype, 10 * type.cols + type.rows)

\* the names of the texture functions that co_call knows
TextureFunctions == {"texture.read", "texture.imageLoad", "texture.write",
                     "texture.imageStore", "texture.sample"}

\* self._root_branch is node 1 of the branch tree; None is 0
RootBranch == 1
None == 0
NewBranch(parent, depth, label, ph) ==
    [parent |-> parent, depth |-> depth, label |-> label, children |-> <<>>,
     merge_label_placeholder |-> None, branch_label_placeholder |-> ph]

\* BaseSpirVGenerator.gen_func_instruction: append to the functions section
gen_func_instruction(g, ins) == [g EXCEPT !.functions = Append(@, ins)]
\* BaseSpirVGenerator.obtain_id: the next free id; the id is g.next_id
obtain_id(g) == [g EXCEPT !.next_id = @ + 1]
\* WordPlaceholder(value): a new mutable cell; the cell is Len(g.placeholders) + 1
WordPlaceholder(g, value) == [g EXCEPT !.placeholders = Append(@, value)]

\* The keys of self._labels: a label itself, <<label, 0>>, and the hop labels
\* f"{label}-hop-{k}", <<label, k>> with k >= 1.
LabelKey(label) == <<label, 0>>
HopKey(label, k) == <<label, k>>

\* _get_label_id: the id of a label, allocated at its first use
_get_label_id(g, label_value) ==
    IF label_value \in DOMAIN g._labels THEN g
    ELSE [obtain_id(g) EXCEPT !._labels = Put(g._labels, label_value, g.next_id)]

(***************************************************************************)
(* The pre-pass of _convert: which names are saved to a function variable  *)
(* at the end of which block, and loaded from it in which block.           *)
(***************************************************************************)
RECURSIVE AddNameToBlocks(_, _, _)
AddNameToBlocks(d, blocks, name) ==
    IF blocks = {} THEN d
    ELSE LET b == CHOOSE x \in blocks : TRUE
         IN AddNameToBlocks(Put(d, b, Get(d, b, {}) \cup {name}), blocks \ {b}, name)

RECURSIVE PreParseFrom(_, _, _, _, _, _)
PreParseFrom(bytecode, i, cur_block_label, saved_in_blocks, save, load) ==
    IF i > Len(bytecode) THEN [save |-> save, load |-> load]
    ELSE LET opcode == bytecode[i].op
             args == bytecode[i].args
         IN IF opcode = "co_label"
            THEN PreParseFrom(bytecode, i + 1, args[1], saved_in_blocks, save, load)
            ELSE IF opcode = "co_store_name"
            THEN PreParseFrom(bytecode, i + 1, cur_block_label,
                              Put(saved_in_blocks, args[1],
                                  Get(saved_in_blocks, args[1], {}) \cup {cur_block_label}),
                              save, load)
            ELSE IF opcode = "co_load_name"
            THEN LET blocks_where_name_is_saved == Get(saved_in_blocks, args[1], {})
                 IN IF \/ cur_block_label \in blocks_where_name_is_saved
                       \/ Cardinality(blocks_where_name_is_saved) <= 1
                    THEN PreParseFrom(bytecode, i + 1, cur_block_label,
                                      saved_in_blocks, save, load)
                    ELSE PreParseFrom(bytecode, i + 1, cur_block_label, saved_in_blocks,
                                      AddNameToBlocks(save, blocks_where_name_is_saved, args[1]),
                                      Put(load, cur_block_label,
                                          Get(load, cur_block_label, {}) \cup {args[1]}))
            ELSE PreParseFrom(bytecode, i + 1, cur_block_label, saved_in_blocks, save, load)

\* a pre-pass that fills the need-load sets only
PreParse_without_saves(bytecode) ==
    [PreParseFrom(bytecode, 1, EmptyLabel, EmptyDict, EmptyDict, EmptyDict)
       EXCEPT !.save = EmptyDict]

PreParse(bytecode) == PreParseFrom(bytecode, 1, EmptyLabel, EmptyDict, EmptyDict, EmptyDict)

(***************************************************************************)
(* Control flow handlers                                                   *)
(***************************************************************************)
\* BaseSpirVGenerator.obtain_variable for StorageClass_Function: a new
\* variable with an id of its own
obtain_variable(g, type) == obtain_id(g)

\* VariableAccessId.resolve_store on a plain variable: one OpStore
resolve_store(g, var_id, ob) ==
    gen_func_instruction(g, Ins("OpStore", <<Id(var_id), Id(ob.id)>>))

\* One turn of the loop of _store_variables_for_other_blocks
StoreVariable(g, name) ==
    IF name \notin DOMAIN g._name_ids THEN Raise(g, "KeyError")
    ELSE LET ob == g._name_ids[name]
             g1 == IF name \notin DOMAIN g._name_variables
                   THEN [obtain_variable(g, ob.type) EXCEPT
                           !._name_variables = Put(g._name_variables, name,
                                                   Access(g.next_id, ob.type))]
                   ELSE g
             var_access == g1._name_variables[name]
         IN IF ob.type # var_access.type THEN Raise(g1, "ShaderError")
            ELSE resolve_store(g1, var_access.id, ob)

RECURSIVE StoreVariables(_, _)
StoreVariables(g, order) ==
    IF order = <<>> \/ g.result # "running" THEN g
    ELSE StoreVariables(StoreVariable(g, Head(order)), Tail(order))

\* The names to save at the end of block `label`
NamesToSave(g, label) == Get(g._need_name_var_save, label, {})

\* _store_variables_for_other_blocks: `order` is the order in which the
\* for loop meets the names of the set self._need_name_var_save[label];
\* a Python set of strings has no order the program fixes.
_store_variables_for_other_blocks(g, label, order) == StoreVariables(g, order)

\* _collect_leaf_branches of co_label: the leaves that carry `label`, in
\* depth-first order, first child first
RECURSIVE _collect_leaf_branches(_, _, _)
_collect_leaf_branches(g, branch, label) ==
    LET b == g.branches[branch]
    IN IF b.children # <<>>
       THEN _collect_leaf_branches(g, b.children[1], label)
            \o _collect_leaf_branches(g, b.children[2], label)
       ELSE IF b.label = label THEN <<branch>> ELSE <<>>

\* leaf_branches.sort(key=lambda b: -b["depth"]): a stable sort, deepest first
RECURSIVE SortFromDepth(_, _, _)
SortFromDepth(g, leaf_branches, d) ==
    IF d < 0 THEN <<>>
    ELSE SelectSeq(leaf_branches, LAMBDA b : g.branches[b].depth = d)
         \o SortFromDepth(g, leaf_branches, d - 1)
SortByDepth(g, leaf_branches) == SortFromDepth(g, leaf_branches, Len(g.branches))

\* list.remove(x) for an x that is in the list: the first occurrence goes
Remove(list, x) ==
    LET i == CHOOSE k \in 1..Len(list) : list[k] = x /\ \A j \in 1..(k - 1) : list[j] # x
    IN SubSeq(list, 1, i - 1) \o SubSeq(list, i + 1, Len(list))

\* _select_branch_to_merge of co_label: the parent of the first leaf whose
\* parent's two children carry the same label, or None
_select_branch_to_merge(g, leaf_branches) ==
    LET ok(i) == LET parent == g.branches[leaf_branches[i]].parent
                 IN /\ parent # None
                    /\ g.branches[g.branches[parent].children[1]].label
                       = g.branches[g.branches[parent].children[2]].label
        hits == {i \in 1..Len(leaf_branches) : ok(i)}
    IN IF hits = {} THEN None
       ELSE g.branches[leaf_branches[CHOOSE i \in hits : \A j \in hits : i <= j]].parent

\* The `while True` loop of co_label that merges sibling pairs
RECURSIVE MergeBranches(_, _, _)
MergeBranches(g, leaf_branches, branches2merge) ==
    LET sorted == SortByDepth(g, leaf_branches)
        new_leaf == _select_branch_to_merge(g, sorted)
    IN IF new_leaf = None
       THEN [g |-> g, leaf_branches |-> sorted, branches2merge |-> branches2merge]
       ELSE LET children == g.branches[new_leaf].children
                g1 == [g EXCEPT !.branches[new_leaf].label = g.branches[children[1]].label]
            IN IF children[1] \notin Range(sorted) \/ children[2] \notin Range(sorted)
               THEN \* list.remove of an element that is not in the list
                    [g |-> Raise(g1, "ValueError"), leaf_branches |-> sorted,
                     branches2merge |-> branches2merge]
               ELSE MergeBranches(g1,
                        Append(Remove(Remove(sorted, children[1]), children[2]), new_leaf),
                        Append(branches2merge, new_leaf))

\* hop_labels of co_label: the ids of the hop labels 1 .. n-1, then the main label
RECURSIVE HopLabels(_, _, _, _)
HopLabels(g, label, n, k) ==
    IF k >= n THEN [g |-> g, ids |-> <<>>]
    ELSE LET g1 == _get_label_id(g, HopKey(label, k))
             rest == HopLabels(g1, label, n, k + 1)
         IN [g |-> rest.g, ids |-> <<g1._labels[HopKey(label, k)]>> \o rest.ids]

\* The loop of co_label over branches2merge: the extra blocks, and the
\* update of the earlier jumps
RECURSIVE EmitMerges(_, _, _, _)
\* the loop without the update of the jump of the second child
EmitMerges_first_child_only(g, branches2merge, hop_labels, i) ==
    IF i > Len(branches2merge) THEN g
    ELSE LET branch == branches2merge[i]
             label_id == hop_labels[i]
             g1 == IF i < Len(hop_labels)
                   THEN LET gp == WordPlaceholder(g, hop_labels[i + 1])
                            ph == Len(gp.placeholders)
                        IN gen_func_instruction(
                             gen_func_instruction(
                               [gp EXCEPT !.branches[branch].branch_label_placeholder = ph],
                               Ins("OpLabel", <<Id(label_id)>>)),
                             Ins("OpBranch", <<Ph(ph)>>))
                   ELSE g
             children == g1.branches[branch].children
             g2 == [g1 EXCEPT
                      !.placeholders[g1.branches[children[1]].branch_label_placeholder] = label_id,
                      !.placeholders[g1.branches[branch].merge_label_placeholder] = label_id]
         IN EmitMerges(g2, branches2merge, hop_labels, i + 1)

EmitMerges(g, branches2merge, hop_labels, i) ==
    IF i > Len(branches2merge) THEN g
    ELSE LET branch == branches2merge[i]
             label_id == hop_labels[i]
             g1 == IF i < Len(hop_labels)
                   THEN LET gp == WordPlaceholder(g, hop_labels[i + 1])
                            ph == Len(gp.placeholders)
                        IN gen_func_instruction(
                             gen_func_instruction(
                               [gp EXCEPT !.branches[branch].branch_label_placeholder = ph],
                               Ins("OpLabel", <<Id(label_id)>>)),
                             Ins("OpBranch", <<Ph(ph)>>))
                   ELSE g
             children == g1.branches[branch].children
             g2 == [g1 EXCEPT
                      !.placeholders[g1.branches[children[1]].branch_label_placeholder] = label_id,
                      !.placeholders[g1.branches[children[2]].branch_label_placeholder] = label_id,
                      !.placeholders[g1.branches[branch].merge_label_placeholder] = label_id]
         IN EmitMerges(g2, branches2merge, hop_labels, i + 1)

RECURSIVE ClearChildren(_, _)
ClearChildren(g, branches2merge) ==
    IF branches2merge = <<>> THEN g
    ELSE ClearChildren([g EXCEPT !.branches[Head(branches2merge)].children = <<>>],
                       Tail(branches2merge))

\* co_label without hop labels: every merge is made at the label itself
co_label_without_hops(g, label) ==
    LET m == MergeBranches(g, _collect_leaf_branches(g, RootBranch, label), <<>>)
    IN IF m.g.result # "running" THEN m.g
       ELSE IF Len(m.leaf_branches) # 1 THEN Raise(m.g, "ShaderError")
       ELSE LET g1 == [m.g EXCEPT !._current_branch = m.leaf_branches[1]]
                g2 == _get_label_id(g1, LabelKey(label))
                main_label_id == g2._labels[LabelKey(label)]
                hop_labels == [i \in DOMAIN m.branches2merge |-> main_label_id]
                g3 == EmitMerges(g2, m.branches2merge, hop_labels, 1)
                g4 == gen_func_instruction(g3, Ins("OpLabel", <<Id(main_label_id)>>))
            IN ClearChildren(g4, m.branches2merge)

co_label(g, label) ==
    LET m == MergeBranches(g, _collect_leaf_branches(g, RootBranch, label), <<>>)
    IN IF m.g.result # "running" THEN m.g
       ELSE IF Len(m.leaf_branches) # 1 THEN Raise(m.g, "ShaderError")
       ELSE LET g1 == [m.g EXCEPT !._current_branch = m.leaf_branches[1]]
                g2 == _get_label_id(g1, LabelKey(label))
                main_label_id == g2._labels[LabelKey(label)]
                hops == HopLabels(g2, label, Len(m.branches2merge), 1)
                hop_labels == hops.ids \o <<main_label_id>>
                g3 == EmitMerges(hops.g, m.branches2merge, hop_labels, 1)
                g4 == gen_func_instruction(g3, Ins("OpLabel", <<Id(main_label_id)>>))
            IN ClearChildren(g4, m.branches2merge)

co_branch(g, label, order) ==
    IF g._current_branch = None THEN Raise(g, "TypeError")
    ELSE LET cur == g._current_branch
             g1 == _store_variables_for_other_blocks(g, g.branches[cur].label, order)
         IN IF g1.result # "running" THEN g1
            ELSE LET g2 == _get_label_id(g1, LabelKey(label))
                     g3 == WordPlaceholder(g2, g2._labels[LabelKey(label)])
                     branch_label_placeholder == Len(g3.placeholders)
                 IN gen_func_instruction(
                      [g3 EXCEPT !.branches[cur].label = label,
                                 !.branches[cur].branch_label_placeholder = branch_label_placeholder,
                                 !._current_branch = None],
                      Ins("OpBranch", <<Ph(branch_label_placeholder)>>))

\* A co_branch_conditional that saves the variables for other blocks after
\* it has emitted the OpSelectionMerge
co_branch_conditional_stores_late(g, true_label, false_label, order) ==
    IF g._current_branch = None THEN Raise(g, "TypeError")
    ELSE LET cur == g._current_branch
             g2 == WordPlaceholder(g, 0)
             merge_label == Len(g2.placeholders)
             g3 == _get_label_id(g2, LabelKey(true_label))
             g4 == WordPlaceholder(g3, g3._labels[LabelKey(true_label)])
             branch1_label == Len(g4.placeholders)
             g5 == _get_label_id(g4, LabelKey(false_label))
             g6 == WordPlaceholder(g5, g5._labels[LabelKey(false_label)])
             branch2_label == Len(g6.placeholders)
             depth == g.branches[cur].depth + 1
             g7 == [g6 EXCEPT
                      !.branches = [@ \o <<NewBranch(cur, depth, true_label, branch1_label),
                                           NewBranch(cur, depth, false_label, branch2_label)>>
                                    EXCEPT ![cur].children = <<Len(g.branches) + 1,
                                                               Len(g.branches) + 2>>,
                                           ![cur].merge_label_placeholder = merge_label]]
         IN IF g7._stack = <<>> THEN Raise(g7, "IndexError")
            ELSE LET condition == g7._stack[Len(g7._stack)]
                     g8 == gen_func_instruction([g7 EXCEPT !._stack = SubSeq(@, 1, Len(@) - 1)],
                             Ins("OpSelectionMerge", <<Ph(merge_label), Lit(0)>>))
                     g9 == _store_variables_for_other_blocks(g8, g.branches[cur].label, order)
                 IN IF g9.result # "running" THEN g9
                    ELSE gen_func_instruction(g9,
                           Ins("OpBranchConditional",
                               <<Id(condition.id), Ph(branch1_label), Ph(branch2_label)>>))

co_branch_conditional(g, true_label, false_label, order) ==
    IF g._current_branch = None THEN Raise(g, "TypeError")
    ELSE LET cur == g._current_branch
             g1 == _store_variables_for_other_blocks(g, g.branches[cur].label, order)
         IN IF g1.result # "running" THEN g1
            ELSE LET g2 == WordPlaceholder(g1, 0)
                     merge_label == Len(g2.placeholders)
                     g3 == _get_label_id(g2, LabelKey(true_label))
                     g4 == WordPlaceholder(g3, g3._labels[LabelKey(true_label)])
                     branch1_label == Len(g4.placeholders)
                     g5 == _get_label_id(g4, LabelKey(false_label))
                     g6 == WordPlaceholder(g5, g5._labels[LabelKey(false_label)])
                     branch2_label == Len(g6.placeholders)
                     depth == g.branches[cur].depth + 1
                     new_branch1 == Len(g.branches) + 1
                     new_branch2 == Len(g.branches) + 2
                     g7 == [g6 EXCEPT
                              !.branches = [@ \o <<NewBranch(cur, depth, true_label, branch1_label),
                                                   NewBranch(cur, depth, false_label, branch2_label)>>
                                            EXCEPT ![cur].children = <<new_branch1, new_branch2>>,
                                                   ![cur].merge_label_placeholder = merge_label]]
                 IN IF g7._stack = <<>> THEN Raise(g7, "IndexError")
                    ELSE LET condition == g7._stack[Len(g7._stack)]
                             g8 == [g7 EXCEPT !._stack = SubSeq(@, 1, Len(@) - 1)]
                         IN gen_func_instruction(
                              gen_func_instruction(g8,
                                Ins("OpSelectionMerge", <<Ph(merge_label), Lit(0)>>)),
                              Ins("OpBranchConditional",
                                  <<Id(condition.id), Ph(branch1_label), Ph(branch2_label)>>))

co_func_end(g) ==
    IF g._current_branch # RootBranch THEN Raise(g, "RuntimeError")
    ELSE gen_func_instruction(gen_func_instruction(g, Ins("OpReturn", <<>>)),
                              Ins("OpFunctionEnd", <<>>))

(***************************************************************************)
(* Basics: the stack, names and constants                                  *)
(***************************************************************************)
\* the storage classes, in the order in which co_load_name looks a name up
KindOrder == <<"input", "output", "uniform", "buffer", "sampler", "texture">>
Kinds == Range(KindOrder)

Push(g, ob) == [g EXCEPT !._stack = Append(@, ob)]
Top(g) == g._stack[Len(g._stack)]
Pop(g) == [g EXCEPT !._stack = SubSeq(@, 1, Len(@) - 1)]

co_pop_top(g) == IF g._stack = <<>> THEN Raise(g, "IndexError") ELSE Pop(g)

co_dup_top(g) == IF g._stack = <<>> THEN Raise(g, "IndexError") ELSE Push(g, Top(g))

\* rot_two of the stack ops: the two values on top change places
co_rot_two(g) ==
    IF Len(g._stack) < 2 THEN Raise(g, "IndexError")
    ELSE Push(Push(Pop(Pop(g)), Top(g)), Top(Pop(g)))

\* BaseSpirVGenerator.obtain_constant: literal constants are interned per
\* type; the type of a literal is the scalar type of the tag of its token
obtain_constant(g, value) ==
    IF value \in DOMAIN g._constants THEN g
    ELSE [obtain_id(g) EXCEPT !._constants = Put(g._constants, value, g.next_id)]

co_load_constant(g, value) ==
    LET g1 == obtain_constant(g, value)
    IN Push(g1, Value(g1._constants[value], Scalar(value.p)))

\* VariableAccessId.resolve_load on a plain variable: one OpLoad into a new id
resolve_load(g, var_access) ==
    gen_func_instruction(obtain_id(g),
                         Ins("OpLoad", <<Id(g.next_id), Id(var_access.id)>>))

co_load_name(g, name) ==
    IF name \in DOMAIN g._name_ids
    THEN IF g._current_branch = None THEN Raise(g, "TypeError")
         ELSE LET current_label == g.branches[g._current_branch].label
                  names_that_need_load == Get(g._need_name_var_load, current_label, {})
              IN IF name \in names_that_need_load
                 THEN IF name \notin DOMAIN g._name_variables THEN Raise(g, "KeyError")
                      ELSE LET var_access == g._name_variables[name]
                               g1 == resolve_load(g, var_access)
                               ob == Value(g.next_id, var_access.type)
                           IN Push([g1 EXCEPT
                                      !._name_ids[name] = ob,
                                      !._need_name_var_load[current_label] = @ \ {name}],
                                   ob)
                 ELSE Push(g, g._name_ids[name])
    ELSE IF \E kind \in Kinds : name \in DOMAIN g.iodicts[kind]
    THEN LET i == CHOOSE k \in 1..Len(KindOrder) :
                        /\ name \in DOMAIN g.iodicts[KindOrder[k]]
                        /\ \A j \in 1..(k - 1) : name \notin DOMAIN g.iodicts[KindOrder[j]]
         IN Push(g, g.iodicts[KindOrder[i]][name])
    ELSE IF name.p \in {"stdlib", "texture", "type"} \cup TextureFunctions
    THEN Push(g, [kind |-> "name", id |-> name.n, type |-> name.p])
    ELSE Raise(g, "ShaderError")

\* A store that binds the name before it looks at the kind of the name
co_store_name_binds_first(g, name) ==
    IF g._stack = <<>> THEN Raise(g, "IndexError")
    ELSE LET ob == Top(g)
             g1 == [Pop(g) EXCEPT !._name_ids = Put(@, name, ob)]
         IN IF name \in DOMAIN g.iodicts["output"]
            THEN resolve_store(g1, g.iodicts["output"][name].id, ob)
            ELSE IF name \in DOMAIN g.iodicts["buffer"]
            THEN resolve_store(g1, g.iodicts["buffer"][name].id, ob)
            ELSE IF name \in DOMAIN g.iodicts["input"] THEN Raise(g1, "ShaderError")
            ELSE IF name \in DOMAIN g.iodicts["uniform"] THEN Raise(g1, "ShaderError")
            ELSE g1

co_store_name(g, name) ==
    IF g._stack = <<>> THEN Raise(g, "IndexError")
    ELSE LET ob == Top(g)
             g1 == Pop(g)
         IN IF name \in DOMAIN g.iodicts["output"]
            THEN [resolve_store(g1, g.iodicts["output"][name].id, ob)
                    EXCEPT !._name_ids = Put(@, name, ob)]
            ELSE IF name \in DOMAIN g.iodicts["buffer"]
            THEN [resolve_store(g1, g.iodicts["buffer"][name].id, ob)
                    EXCEPT !._name_ids = Put(@, name, ob)]
            ELSE IF name \in DOMAIN g.iodicts["input"] THEN Raise(g1, "ShaderError")
            ELSE IF name \in DOMAIN g.iodicts["uniform"] THEN Raise(g1, "ShaderError")
            ELSE [g1 EXCEPT !._name_ids = Put(@, name, ob)]

(***************************************************************************)
(* The entry point and the resources.  Only the function section and the   *)
(* ids are kept of what the handlers generate; a slot is a record: an int  *)
(* n is [t |-> "int", v |-> <<n>>], a tuple (a, b) is [t |-> "tuple",      *)
(* v |-> <<a, b>>] and the list [a, b] is [t |-> "list", v |-> <<a, b>>].  *)
(***************************************************************************)
co_entrypoint(g, name, shader_type, execution_modes) ==
    IF shader_type.p \notin {"compute", "vertex", "fragment", "geometry"}
    THEN Raise(g, "ShaderError")
    ELSE LET entry_point_id == g.next_id
             g1 == obtain_id(g)
             func_type_id == g1.next_id
             g2 == gen_func_instruction(obtain_id(g1),
                       Ins("OpFunction", <<Str("void"), Id(entry_point_id), Lit(0),
                                           Id(func_type_id)>>))
         IN gen_func_instruction(obtain_id(g2), Ins("OpLabel", <<Id(g2.next_id)>>))

co_resource(g, name, kind, slot, typename) ==
    LET bindgroup == IF slot.t = "tuple" THEN slot.v[1] ELSE 0
        slot1 == IF slot.t = "tuple" THEN [t |-> "int", v |-> <<slot.v[2]>>] ELSE slot
        namespace_id == IF kind.p \in {"input", "output"} THEN kind
                        ELSE Tok("bindgroup-", bindgroup)
        slotmap_key == <<namespace_id, slot1>>
    IN IF kind.p \notin Kinds THEN Raise(g, "ShaderError")
       \* a list cannot be hashed: `slotmap_key in self._slotmap` raises
       ELSE IF slot1.t = "list" THEN Raise(g, "TypeError")
       ELSE IF slotmap_key \in DOMAIN g._slotmap THEN Raise(g, "ShaderError")
       ELSE LET g1 == [g EXCEPT !._slotmap = Put(@, slotmap_key, name)]
                \* a type that is not a struct is wrapped in a struct of one field
                subtypes == kind.p \in {"uniform", "buffer"}
                \* of a texture: the type info "2d f32" or "2d i32", and the word
                \* placeholders sampled (0: unknown) and depth (2: unknown)
                sampled == Len(g1.placeholders) + 1
                g2 == IF kind.p = "texture"
                      THEN obtain_variable(WordPlaceholder(WordPlaceholder(g1, 0), 2), typename)
                      ELSE obtain_variable(g1, typename)
                var_access == IF kind.p = "texture"
                              THEN [kind |-> "access", id |-> g1.next_id, type |-> typename,
                                    sample_type |-> IF typename = Str("2d i32") THEN "int"
                                                    ELSE "float",
                                    sampled |-> sampled, depth |-> sampled + 1]
                              ELSE Access(g1.next_id, typename)
                g3 == IF subtypes THEN obtain_constant(g2, Tok("int", 0)) ELSE g2
            IN IF kind.p = "texture" /\ typename \notin {Str("2d f32"), Str("2d i32")}
               THEN Raise(g1, "ShaderError")
               ELSE IF name \in DOMAIN g.iodicts[kind.p] THEN Raise(g3, "ShaderError")
               ELSE [g3 EXCEPT !.iodicts[kind.p] = Put(@, name, var_access)]

(***************************************************************************)
(* Binary operators.  A type is a record of its shape, the kind of its     *)
(* elements and its size: types are interned, so that `type1 is type2` is  *)
(* equality.  A vector has `cols` elements, a matrix cols x rows.          *)
(***************************************************************************)
\* The element types: "float" is f32, "int" is i32 and "bool" is boolean;
\* f64 is the other Float, and i64 and u8 are the other subclasses of Int
ElementTypes == {"float", "f64", "int", "i64", "u8", "bool"}
\* issubclass(el, _types.Float), issubclass(el, _types.Int)
IsFloat(el) == el \in {"float", "f64"}
IsInt(el) == el \in {"int", "i64", "u8"}
\* el.__name__.startswith("u")
NameStartsWithU(el) == el = "u8"

\* _convert_scalar_or_vector: the generator after the call and the value
\* returned; an element type is the subtype of a vector type and of the
\* scalar type itself.  In the branches to an Int the code computes `op`
\* and emits cc.OpConvertFToS and cc.OpSConvert.
_convert_scalar_or_vector(g, out_type, out_el_type, arg, arg_el_type) ==
    LET result_id == Value(g.next_id, out_type)
        g1 == obtain_id(g)
        Convert(opcode) ==
            [g |-> gen_func_instruction(g1, Ins(opcode, <<TypeId(out_type), Id(result_id.id),
                                                          Id(arg.id)>>)),
             ob |-> result_id]
        \* OpSelect between the constants one and zero of the type el
        Select(el) ==
            LET g2 == obtain_constant(obtain_constant(g1, Tok(el, 0)), Tok(el, 1))
            IN [g |-> gen_func_instruction(g2,
                         Ins("OpSelect", <<TypeId(out_type), Id(result_id.id), Id(arg.id),
                                           Id(g2._constants[Tok(el, 1)]),
                                           Id(g2._constants[Tok(el, 0)])>>)),
                ob |-> result_id]
        \* a comparison with the constant zero of the type el
        NotEqual(opcode, el) ==
            LET g2 == obtain_constant(g1, Tok(el, 0))
            IN [g |-> gen_func_instruction(g2,
                         Ins(opcode, <<TypeId(out_type), Id(result_id.id), Id(arg.id),
                                       Id(g2._constants[Tok(el, 0)])>>)),
                ob |-> result_id]
    IN IF out_type.shape # "scalar" /\ "bool" \in {out_el_type, arg_el_type}
       THEN [g |-> Raise(g, "AssertionError"), ob |-> arg]
       ELSE IF arg.type = out_type THEN [g |-> g, ob |-> arg]
       ELSE IF IsFloat(out_el_type)
       THEN IF IsFloat(arg_el_type) THEN Convert("OpFConvert")
            ELSE IF IsInt(arg_el_type)
            THEN Convert(IF NameStartsWithU(arg_el_type) THEN "OpConvertUToF"
                         ELSE "OpConvertSToF")
            ELSE Select(out_el_type)
       ELSE IF IsInt(out_el_type)
       THEN IF IsFloat(arg_el_type) THEN Convert("OpConvertFToS")
            ELSE IF IsInt(arg_el_type) THEN Convert("OpSConvert")
            ELSE Select(out_el_type)
       ELSE IF IsFloat(arg_el_type) THEN NotEqual("OpFOrdNotEqual", arg_el_type)
       ELSE IF IsInt(arg_el_type) THEN NotEqual("OpINotEqual", arg_el_type)
       ELSE [g |-> g, ob |-> arg]

_convert_scalar(g, out_type, arg) ==
    _convert_scalar_or_vector(g, out_type, out_type.subtype, arg, arg.type.subtype)

\* The loops of _vector_packing over the arguments from args[k] on, and
\* over the elements from i on (0 for a scalar) of the argument args[k]:
\* r holds the generator and the composite_ids so far
RECURSIVE Deconstruct(_, _, _, _, _)
Deconstruct(r, t, args, k, i) ==
    IF k > Len(args) \/ r.g.result # "running" THEN r
    ELSE LET arg == args[k]
         IN IF arg.kind # "value" THEN [r EXCEPT !.g = Raise(@, "RuntimeError")]
            ELSE IF arg.type.shape = "scalar"
            THEN LET c == _convert_scalar(r.g, t, arg)
                 IN Deconstruct([g |-> c.g, ids |-> Append(r.ids, c.ob)], t, args, k + 1, 0)
            ELSE IF arg.type.shape = "vector"
            THEN IF i >= arg.type.cols THEN Deconstruct(r, t, args, k + 1, 0)
                 ELSE LET el == Scalar(arg.type.subtype)
                          comp_id == Value(r.g.next_id, el)
                          g1 == gen_func_instruction(obtain_id(r.g),
                                    Ins("OpCompositeExtract",
                                        <<TypeId(el), Id(comp_id.id), Id(arg.id), Lit(i)>>))
                          c == _convert_scalar(g1, t, comp_id)
                      IN Deconstruct([g |-> c.g, ids |-> Append(r.ids, c.ob)],
                                     t, args, k, i + 1)
            ELSE [r EXCEPT !.g = Raise(@, "ShaderError")]

\* _vector_packing without its check of the number of components
_vector_packing_any_length(g, vector_type, args) ==
    LET t == Scalar(vector_type.subtype)
        r == Deconstruct([g |-> g, ids |-> <<>>], t, args, 1, 0)
        result_id == Value(r.g.next_id, vector_type)
    IN IF r.g.result # "running" THEN [g |-> r.g, ob |-> result_id]
       ELSE [g |-> gen_func_instruction(obtain_id(r.g),
                       Ins("OpCompositeConstruct",
                           <<TypeId(vector_type), Id(result_id.id)>>
                           \o [j \in DOMAIN r.ids |-> Id(r.ids[j].id)])),
             ob |-> result_id]

\* _vector_packing: the generator after the call and the value returned
_vector_packing(g, vector_type, args) ==
    LET t == Scalar(vector_type.subtype)
        r == Deconstruct([g |-> g, ids |-> <<>>], t, args, 1, 0)
        result_id == Value(r.g.next_id, vector_type)
    IN IF /\ Len(args) = 1
          /\ vector_type.subtype # "bool"
          /\ args[1].type.subtype # "bool"
       THEN IF ~(args[1].type.shape = "vector" /\ args[1].type.cols = vector_type.cols)
            THEN [g |-> Raise(g, "ShaderError"), ob |-> args[1]]
            ELSE _convert_scalar_or_vector(g, vector_type, vector_type.subtype,
                                           args[1], args[1].type.subtype)
       ELSE IF r.g.result # "running" THEN [g |-> r.g, ob |-> result_id]
       ELSE IF Len(r.ids) # vector_type.cols
       THEN [g |-> Raise(r.g, "ShaderError"), ob |-> result_id]
       ELSE IF Len(r.ids) < 2 THEN [g |-> Raise(r.g, "AssertionError"), ob |-> result_id]
       ELSE [g |-> gen_func_instruction(obtain_id(r.g),
                       Ins("OpCompositeConstruct",
                           <<TypeId(vector_type), Id(result_id.id)>>
                           \o [j \in DOMAIN r.ids |-> Id(r.ids[j].id)])),
             ob |-> result_id]

\* get_texture_sampler: self._texture_samplers has the key of a texture
\* and a sampler iff their OpSampledImage is in the function section, where
\* the cached id is its result
get_texture_sampler(g, texture, sampler) ==
    LET made == {i \in DOMAIN g.functions :
                   /\ g.functions[i].opcode = "OpSampledImage"
                   /\ SubSeq(g.functions[i].words, 2, 3) = <<Id(texture.id), Id(sampler.id)>>}
    IN IF made # {}
       THEN [g |-> g,
             ob |-> Value(g.functions[CHOOSE i \in made : TRUE].words[1].n, "sampled image")]
       ELSE [g |-> gen_func_instruction(obtain_id(g),
                       Ins("OpSampledImage",
                           <<Id(g.next_id), Id(texture.id), Id(sampler.id)>>)),
             ob |-> Value(g.next_id, "sampled image")]

\* the assignment with the words exchanged
SetDepthSampled_exchanged(g, tex, depth, sampled) ==
    [g EXCEPT !.placeholders[tex.depth] = sampled,
              !.placeholders[tex.sampled] = depth]

\* tex.depth.value, tex.sampled.value = depth, sampled
SetDepthSampled(g, tex, depth, sampled) ==
    [g EXCEPT !.placeholders[tex.depth] = depth,
              !.placeholders[tex.sampled] = sampled]

co_call(g, nargs) ==
    LET n == IF nargs = 0 \/ nargs > Len(g._stack) THEN Len(g._stack) ELSE nargs
        args == SubSeq(g._stack, Len(g._stack) - n + 1, Len(g._stack))
        g1 == [g EXCEPT !._stack = SubSeq(@, 1, Len(@) - n)]
        func == Top(g1)
        g2 == Pop(g1)
        tex == args[1]
        coord == args[Len(args)]
        color == args[Len(args)]
        IsTexture(ob) == ob.kind = "access" /\ "sampled" \in DOMAIN ob
        Use(depth, sampled) == SetDepthSampled(g2, tex, depth, sampled)
        Coords == {Scalar("int"), Vector(2, "int"), Vector(3, "int")}
        vec_sample_type == Vector(4, tex.sample_type)
    IN IF g1._stack = <<>> THEN Raise(g1, "IndexError")
       ELSE IF func.kind = "type"
       THEN IF func.type.shape = "vector"
            THEN LET r == _vector_packing(g2, func.type, args)
                 IN IF r.g.result # "running" THEN r.g ELSE Push(r.g, r.ob)
            ELSE IF func.type.shape = "scalar"
            THEN IF Len(args) # 1 THEN Raise(g2, "ShaderError")
                 ELSE LET r == _convert_scalar(g2, func.type, args[1])
                      IN IF r.g.result # "running" THEN r.g ELSE Push(r.g, r.ob)
            \* `result` is not bound for another type
            ELSE Raise(g2, "UnboundLocalError")
       ELSE IF func.kind = "name" /\ func.type \in {"stdlib", "texture"} \cup TextureFunctions
       THEN IF func.type \in {"texture.imageLoad", "texture.read"}
            THEN IF Len(args) # 2 THEN Raise(g2, "ValueError")
                 ELSE IF ~IsTexture(tex) THEN Raise(g2, "AttributeError")
                 ELSE IF coord.type \notin Coords THEN Raise(Use(0, 2), "ShaderError")
                 ELSE Push(gen_func_instruction(obtain_id(Use(0, 2)),
                               Ins("OpImageRead", <<TypeId(vec_sample_type), Id(g2.next_id),
                                                    Id(tex.id), Id(coord.id)>>)),
                           Value(g2.next_id, vec_sample_type))
            ELSE IF func.type \in {"texture.imageStore", "texture.write"}
            THEN IF Len(args) # 3 THEN Raise(g2, "ValueError")
                 ELSE IF ~IsTexture(tex) THEN Raise(g2, "AttributeError")
                 ELSE IF args[2].type \notin Coords THEN Raise(Use(0, 2), "ShaderError")
                 ELSE IF color.type # vec_sample_type THEN Raise(Use(0, 2), "ShaderError")
                 ELSE Push(gen_func_instruction(Use(0, 2),
                               Ins("OpImageWrite", <<Id(tex.id), Id(args[2].id), Id(color.id)>>)),
                           [kind |-> "None"])
            ELSE IF func.type = "texture.sample"
            THEN IF Len(args) # 3 THEN Raise(g2, "ValueError")
                 ELSE IF ~IsTexture(tex) THEN Raise(g2, "AttributeError")
                 ELSE LET result_id == Value(g2.next_id, vec_sample_type)
                          s == get_texture_sampler(obtain_id(Use(0, 1)), tex, args[2])
                          g3 == obtain_constant(s.g, Tok("float", 0))
                      IN Push(gen_func_instruction(g3,
                                  Ins("OpImageSampleExplicitLod",
                                      <<TypeId(vec_sample_type), Id(result_id.id), Id(s.ob.id),
                                        Id(coord.id), Lit(2),
                                        Id(g3._constants[Tok("float", 0)])>>)),
                              result_id)
            ELSE Raise(g2, "ShaderError")
       ELSE Raise(g2, "ShaderError")

co_binop(g, op) ==
    IF Len(g._stack) < 2 THEN Raise([g EXCEPT !._stack = <<>>], "IndexError")
    ELSE
    LET val2 == Top(g)
        val1 == Top(Pop(g))
        g0 == Pop(Pop(g))
        FOPS == [add |-> "OpFAdd", sub |-> "OpFSub", mul |-> "OpFMul", div |-> "OpFDiv"]
        IOPS == [add |-> "OpIAdd", sub |-> "OpISub", mul |-> "OpIMul"]
        LOPS == [and |-> "OpLogicalAnd", or |-> "OpLogicalOr"]
        type1 == val1.type
        type2 == val2.type
        reftype1 == type1.subtype
        reftype2 == type2.subtype
        \* obtain_value(type): a new id for the result
        result_id == g0.next_id
        g1 == obtain_id(g0)
        Emit(gg, opcode, type, id1, id2) ==
            Push(gen_func_instruction(gg, Ins(opcode, <<Id(result_id), Id(id1.id), Id(id2.id)>>)),
                 Value(result_id, type))
        \* dict[op] of an op that is not a key
        Lookup(ops, type, id1, id2) ==
            IF op \in DOMAIN ops THEN Emit(g1, ops[op], type, id1, id2)
            ELSE Raise(g1, "KeyError")
        Broadcast(vector_type, scalar) ==
            IF op \notin DOMAIN FOPS THEN Raise(g1, "KeyError")
            ELSE LET val3 == _vector_packing(g1, vector_type,
                                             [i \in 1..vector_type.cols |-> scalar])
                 IN IF val3.g.result # "running" THEN val3.g
                    ELSE Emit(val3.g, FOPS[op], vector_type, val1, val3.ob)
    IN IF reftype1 # reftype2 THEN Raise(g0, "ShaderError")
       ELSE IF type1 = type2 /\ type1.shape \in {"scalar", "vector"}
       THEN IF reftype1 = "float" THEN Lookup(FOPS, type1, val1, val2)
            ELSE IF reftype1 = "int" THEN Lookup(IOPS, type1, val1, val2)
            ELSE IF reftype1 = "bool" THEN Lookup(LOPS, type1, val1, val2)
            ELSE Raise(g1, "ShaderError")
       ELSE IF type1.shape = "scalar" /\ type2.shape = "vector"
       THEN IF reftype1 # "float" THEN Raise(g0, "ShaderError")
            ELSE IF op = "mul" THEN Emit(g1, "OpVectorTimesScalar", type2, val2, val1)
            ELSE Broadcast(type2, val1)
       ELSE IF type1.shape = "vector" /\ type2.shape = "scalar"
       THEN IF reftype1 # "float" THEN Raise(g0, "ShaderError")
            ELSE IF op = "mul" THEN Emit(g1, "OpVectorTimesScalar", type1, val1, val2)
            ELSE Broadcast(type1, val2)
       ELSE IF op # "mul" THEN Raise(g0, "ShaderError")
       ELSE IF reftype1 # "float" THEN Raise(g0, "ShaderError")
       ELSE IF type1.shape = "matrix" /\ type2.shape = "matrix"
       THEN IF type1.cols # type2.rows THEN Raise(g0, "ShaderError")
            ELSE Emit(g1, "OpMatrixTimesMatrix",
                      [type1 EXCEPT !.cols = type2.cols], val1, val2)
       ELSE IF type1.shape = "matrix" /\ type2.shape = "scalar"
       THEN Emit(g1, "OpMatrixTimesScalar", type1, val1, val2)
       ELSE IF type1.shape = "matrix" /\ type2.shape = "vector"
       THEN IF type2.cols # type1.cols THEN Raise(g0, "ShaderError")
            ELSE Emit(g1, "OpMatrixTimesVector",
                      [shape |-> "vector", subtype |-> reftype1, cols |-> type1.rows,
                       rows |-> 1], val1, val2)
       ELSE IF type1.shape = "vector" /\ type2.shape = "matrix"
       THEN IF type1.cols # type2.rows THEN Raise(g0, "ShaderError")
            ELSE Emit(g1, "OpVectorTimesMatrix",
                      [shape |-> "vector", subtype |-> reftype2, cols |-> type2.cols,
                       rows |-> 1], val1, val2)
       ELSE Raise(g0, "ShaderError")

(***************************************************************************)
(* The dispatch loop of _convert.  In mode "stream" the NSB is name-free,  *)
(* so that the pre-pass finds nothing whatever the ops are, and the ops    *)
(* are chosen one at a time as the loop reaches them; _opcodes is then the *)
(* part of the NSB dispatched so far.  In mode "program" the whole NSB is  *)
(* in _opcodes from the start and ip walks over it.                        *)
(***************************************************************************)
MaxStack == 1

Lab(n) == Tok("L", n)
TrueConst == Tok("bool", 1)
Min(a, b) == IF a < b THEN a ELSE b
Max(a, b) == IF a < b THEN b ELSE a

\* Labels are only compared with each other, so an NSB is taken up to the
\* renaming of its labels: a label not used before is the next unused one.
UsedLabels ==
    LET ns == {a.n : a \in {x \in UNION {Range(_opcodes[i].args) : i \in DOMAIN _opcodes} :
                              x.p = "L"}}
    IN IF ns = {} THEN 0 ELSE CHOOSE n \in ns : \A m \in ns : m <= n

StreamOps ==
    IF Len(_opcodes) >= MaxOps THEN {}
    ELSE LET fresh == Min(UsedLabels + 1, NumLabels)
         IN {Op1("co_label", Lab(n)) : n \in 1..fresh}
            \cup {Op1("co_branch", Lab(n)) : n \in 1..fresh}
            \cup {Op2("co_branch_conditional", Lab(ab[1]), Lab(ab[2])) :
                    ab \in {x \in (1..fresh) \X (1..NumLabels) :
                              x[2] <= Max(UsedLabels, x[1]) + 1}}
            \cup (IF Len(_stack) < MaxStack
                  THEN {Op1("co_load_constant", TrueConst)} ELSE {})
            \cup {Op0("co_func_end")}

NextOps ==
    IF mode = "stream" THEN StreamOps
    ELSE IF ip <= Len(_opcodes) THEN {_opcodes[ip]} ELSE {}

\* The orders in which a for loop can meet the names to save at the end
\* of the current block
SaveOrders(g) ==
    IF g._current_branch = None THEN {<<>>}
    ELSE Orderings(NamesToSave(g, g.branches[g._current_branch].label))

\* One turn of `for opcode, *args in bytecode`: the handler runs; an
\* exception ends the conversion
Dispatch(op, g) ==
    /\ Commit(g)
    /\ mode' = mode
    /\ converter' = converter
    /\ _opcodes' = IF mode = "stream" THEN Append(_opcodes, op) ELSE _opcodes
    /\ ip' = ip + 1
    /\ pc' = IF g.result # "running" THEN "done" ELSE pc

Generating == pc = "generate" /\ result = "running"

Do_co_label ==
    /\ Generating
    /\ \E op \in NextOps : op.op = "co_label" /\ Dispatch(op, co_label(Self, op.args[1]))

Do_co_branch ==
    /\ Generating
    /\ \E op \in NextOps :
         /\ op.op = "co_branch"
         /\ \E order \in SaveOrders(Self) : Dispatch(op, co_branch(Self, op.args[1], order))

Do_co_branch_conditional ==
    /\ Generating
    /\ \E op \in NextOps :
         /\ op.op = "co_branch_conditional"
         /\ \E order \in SaveOrders(Self) :
              Dispatch(op, co_branch_conditional(Self, op.args[1], op.args[2], order))

Do_co_load_constant ==
    /\ Generating
    /\ \E op \in NextOps :
         op.op = "co_load_constant" /\ Dispatch(op, co_load_constant(Self, op.args[1]))

Do_co_func_end ==
    /\ Generating
    /\ \E op \in NextOps : op.op = "co_func_end" /\ Dispatch(op, co_func_end(Self))

\* The end of the bytecode: _convert returns
Finish ==
    /\ Generating
    /\ IF mode = "stream" THEN _opcodes # <<>> /\ _opcodes[Len(_opcodes)].op = "co_func_end"
       ELSE ip > Len(_opcodes)
    /\ pc' = "done"
    /\ result' = "ok"
    /\ UNCHANGED <<mode, _opcodes, ip, converter, bevars>>

\* The state of the generator when the dispatch loop starts on `bytecode`;
\* `stack` holds the values loaded before, whose ids are 1, 2, ...
InitGenerator(bytecode, stack) ==
    /\ result = "running"
    /\ (mode \in {"stream", "program", "passes", "binop", "call", "merge"} => converter = <<>>)
    /\ ip = 1
    /\ _stack = stack
    /\ iodicts = [kind \in Kinds |-> EmptyDict]
    /\ _slotmap = EmptyDict
    /\ _name_ids = EmptyDict
    /\ _name_variables = EmptyDict
    /\ _labels = EmptyDict
    /\ branches = <<[parent |-> None, depth |-> 0, label |-> EmptyLabel,
                     children |-> <<>>, merge_label_placeholder |-> None,
                     branch_label_placeholder |-> None]>>
    /\ _current_branch = RootBranch
    /\ _need_name_var_save = PreParse(bytecode).save
    /\ _need_name_var_load = PreParse(bytecode).load
    /\ placeholders = <<>>
    /\ functions = <<>>
    /\ next_id = Len(stack) + 1
    /\ _constants = EmptyDict

InitCFG == mode = "stream" /\ pc = "generate" /\ _opcodes = <<>> /\ InitGenerator(<<>>, <<>>)

NextCFG ==
    \/ Do_co_label
    \/ Do_co_branch
    \/ Do_co_branch_conditional
    \/ Do_co_load_constant
    \/ Do_co_func_end
    \/ Finish

SpecCFG == InitCFG /\ [][NextCFG]_vars

(***************************************************************************)
(* Properties of the control flow handlers                                 *)
(***************************************************************************)
\* the op that the step dispatches, and the last op dispatched
Dispatches(name) == ip' = ip + 1 /\ _opcodes'[ip].op = name
LastOp == _opcodes[ip - 1]
Opcodes(instructions) == [i \in DOMAIN instructions |-> instructions[i].opcode]

\* C8: when co_func_end is dispatched while the current branch is not the
\* root (a child branch is being filled, or a co_branch has just closed the
\* block), the conversion fails with a ShaderError and nothing is emitted
C8_FuncEndOpenBranches ==
    [][(Generating /\ Dispatches("co_func_end") /\ _current_branch # RootBranch)
         => (result' = "ShaderError" /\ functions' = functions)]_vars

\* co_func_end was dispatched right after a co_branch, it failed, and not
\* with a ShaderError
C8_Witness ==
    /\ ip > 2
    /\ LastOp.op = "co_func_end"
    /\ _opcodes[ip - 2].op = "co_branch"
    /\ _current_branch # RootBranch
    /\ result \notin {"running", "ok", "ShaderError"}
    /\ "OpReturn" \notin Range(Opcodes(functions))

\* The open leaves of the branch tree that carry `label`
RECURSIVE OpenLeaves(_, _)
OpenLeaves(g, branch) ==
    IF g.branches[branch].children = <<>> THEN {branch}
    ELSE OpenLeaves(g, g.branches[branch].children[1])
         \cup OpenLeaves(g, g.branches[branch].children[2])
LeavesCarrying(g, label) ==
    {b \in OpenLeaves(g, RootBranch) : g.branches[b].label = label}

\* Merging sibling pairs that both carry the label, until no pair is left:
\* a merged pair is replaced by its parent, which then carries the label
RECURSIVE MergeSiblings(_, _)
MergeSiblings(g, carrying) ==
    LET pairs == {p \in 1..Len(g.branches) :
                    /\ g.branches[p].children # <<>>
                    /\ g.branches[p].children[1] \in carrying
                    /\ g.branches[p].children[2] \in carrying}
    IN IF pairs = {} THEN carrying
       ELSE LET p == CHOOSE x \in pairs : TRUE
            IN MergeSiblings(g, (carrying \ Range(g.branches[p].children)) \cup {p})

OneLeafAfterMerging(g, label) ==
    Cardinality(MergeSiblings(g, LeavesCarrying(g, label))) = 1

\* C9: co_label(L) raises ShaderError and emits nothing unless, after the
\* sibling pairs that both carry L are merged, exactly one open leaf
\* carries L
C9_LabelNeedsOneLeaf ==
    [][(Generating /\ Dispatches("co_label")
          /\ ~OneLeafAfterMerging(Self, _opcodes'[ip].args[1]))
         => (result' = "ShaderError" /\ functions' = functions)]_vars

\* co_label was dispatched with two leaves that are not siblings carrying
\* its label, and it raised something else than a ShaderError
C9_Witness ==
    /\ ip > 1
    /\ LastOp.op = "co_label"
    /\ Cardinality(LeavesCarrying(Self, LastOp.args[1])) = 2
    /\ result \notin {"running", "ok", "ShaderError"}

\* Apart from the ValueError of list.remove, co_label does as C9 says, and
\* it accepts a label that one leaf carries after merging
C9_ExceptValueError ==
    [][(Generating /\ Dispatches("co_label") /\ result' # "ValueError")
         => IF OneLeafAfterMerging(Self, _opcodes'[ip].args[1])
            THEN result' = "running"
                 /\ Len(functions') > Len(functions)
                 /\ functions'[Len(functions')].opcode = "OpLabel"
            ELSE result' = "ShaderError" /\ functions' = functions]_vars

(***************************************************************************)
(* Whole programs with names: an if/else, as the front end lays it out.    *)
(* Block 0 is the entry block and ends with the conditional branch, blocks *)
(* 1 and 2 are the two arms and block 3 is the merge block.  A block       *)
(* stores and loads the names that the program picks for it.               *)
(***************************************************************************)
MaxStores == 4
MaxLoads == 2

NameOrder == <<Str("x"), Str("y")>>
Names == Range(NameOrder)

\* The statements of block b: `name = <constant>`, with a constant of its
\* own for each name and block, and a use of `name` as an expression
\* statement
Body(stores, loads, loads_first, b) ==
    LET sts == Concat([i \in 1..Len(NameOrder) |->
                         IF <<NameOrder[i], b>> \in stores
                         THEN <<Op1("co_load_constant", Tok("i32", b * Len(NameOrder) + i)),
                                Op1("co_store_name", NameOrder[i])>>
                         ELSE <<>>])
        lds == Concat([i \in 1..Len(NameOrder) |->
                         IF <<NameOrder[i], b>> \in loads
                         THEN <<Op1("co_load_name", NameOrder[i]), Op0("co_pop_top")>>
                         ELSE <<>>])
    IN IF loads_first THEN lds \o sts ELSE sts \o lds

Program(stores, loads, loads_first) ==
    Body(stores, loads, loads_first, 0)
    \o <<Op1("co_load_constant", TrueConst),
         Op2("co_branch_conditional", Lab(1), Lab(2)),
         Op1("co_label", Lab(1))>>
    \o Body(stores, loads, loads_first, 1)
    \o <<Op1("co_branch", Lab(3)), Op1("co_label", Lab(2))>>
    \o Body(stores, loads, loads_first, 2)
    \o <<Op1("co_branch", Lab(3)), Op1("co_label", Lab(3))>>
    \o Body(stores, loads, loads_first, 3)
    \o <<Op0("co_func_end")>>

Do_co_load_name ==
    /\ Generating
    /\ \E op \in NextOps :
         op.op = "co_load_name" /\ Dispatch(op, co_load_name(Self, op.args[1]))

Do_co_store_name ==
    /\ Generating
    /\ \E op \in NextOps :
         op.op = "co_store_name" /\ Dispatch(op, co_store_name(Self, op.args[1]))

Do_co_pop_top ==
    /\ Generating
    /\ \E op \in NextOps : op.op = "co_pop_top" /\ Dispatch(op, co_pop_top(Self))

InitBE ==
    /\ mode = "program"
    /\ pc = "generate"
    /\ \E stores \in {c \in SUBSET (Names \X {0, 1, 2}) : Cardinality(c) <= MaxStores},
          loads \in {c \in SUBSET (Names \X {1, 2, 3}) : Cardinality(c) <= MaxLoads},
          loads_first \in BOOLEAN :
         _opcodes = Program(stores, loads, loads_first)
    /\ InitGenerator(_opcodes, <<>>)

NextBE ==
    \/ Do_co_label
    \/ Do_co_branch
    \/ Do_co_branch_conditional
    \/ Do_co_load_constant
    \/ Do_co_load_name
    \/ Do_co_store_name
    \/ Do_co_pop_top
    \/ Do_co_func_end
    \/ Finish

SpecBE == InitBE /\ [][NextBE]_vars

(***************************************************************************)
(* Properties of the function section                                      *)
(***************************************************************************)
\* C1: every OpBranchConditional of the function section comes right after
\* an OpSelectionMerge, and the two come from one co_branch_conditional:
\* the merge placeholder is the one created just before the placeholders
\* of the two targets
C1_SelectionMergeBeforeBranch ==
    \A i \in 1..Len(functions) :
        functions[i].opcode = "OpBranchConditional"
        => /\ i > 1
           /\ functions[i - 1].opcode = "OpSelectionMerge"
           /\ functions[i - 1].words[1].p = "ph"
           /\ functions[i].words[2] = Ph(functions[i - 1].words[1].n + 1)
           /\ functions[i].words[3] = Ph(functions[i - 1].words[1].n + 2)

\* a conditional branch ended a block that had to save a variable for
\* other blocks: the OpStore comes before the OpSelectionMerge
C1_Witness ==
    \E i \in 3..Len(functions) :
        /\ functions[i].opcode = "OpBranchConditional"
        /\ functions[i - 1].opcode = "OpSelectionMerge"
        /\ functions[i - 2].opcode = "OpStore"
        /\ NamesToSave(Self, EmptyLabel) # {}

\* The function sections and the id counters that a branch op can leave,
\* over the orders in which the names to save can be met
BranchOutcomes(op) ==
    {LET g == IF op.op = "co_branch"
              THEN co_branch(Self, op.args[1], order)
              ELSE co_branch_conditional(Self, op.args[1], op.args[2], order)
     IN <<g.functions, g.next_id>> : order \in SaveOrders(Self)}

\* C5: the back end is deterministic: whatever the order in which the
\* names to save at the end of a block are met, a branch op emits the same
\* instructions with the same ids
C5_Deterministic ==
    Generating =>
        \A op \in NextOps :
            op.op \in {"co_branch", "co_branch_conditional"}
            => Cardinality(BranchOutcomes(op)) = 1

\* two names were saved at the end of one block, and the other order would
\* have given their variables the other ids
C5_Witness ==
    /\ ip > 1
    /\ LastOp.op \in {"co_branch", "co_branch_conditional"}
    /\ result = "running"
    /\ \E n1, n2 \in DOMAIN _name_variables :
         /\ n1 # n2
         /\ {n1, n2} \subseteq UNION {_need_name_var_save[l] : l \in DOMAIN _need_name_var_save}
         /\ \E l \in DOMAIN _need_name_var_save : {n1, n2} \subseteq _need_name_var_save[l]

(***************************************************************************)
(* The front end's passes over the emitted ops (PyBytecode2Bytecode).      *)
(* A pass is an operator from the op list to the op list; a label is a     *)
(* token: str(pointer) is Tok("", pointer), "L3" is Tok("L", 3) and the    *)
(* loop labels "Lh1", "Li1", ... are Tok("Lh", 1), Tok("Li", 1), ...       *)
(***************************************************************************)
\* s[lo:hi] of Python, for 0 <= lo
PySlice(s, lo, hi) == SubSeq(s, Min(lo, Len(s)) + 1, Min(hi, Len(s)))

\* label.startswith("L")
StartsWithL(label) == label.p \in {"L", "Lh", "Li", "Lc", "Lb", "Lm"}

\* `while label in labels_to_replace: label = labels_to_replace[label]`;
\* fuel bounds the walk, which a cycle of replacements would make endless
RECURSIVE FollowLabel(_, _, _)
FollowLabel(labels_to_replace, label, fuel) ==
    IF label \in DOMAIN labels_to_replace /\ fuel > 0
    THEN FollowLabel(labels_to_replace, labels_to_replace[label], fuel - 1)
    ELSE label

_set_new_label(labels_to_replace, label, new_label) ==
    Put(labels_to_replace,
        FollowLabel(labels_to_replace, label, Cardinality(DOMAIN labels_to_replace)),
        new_label)

ReplaceLabel(labels_to_replace, label) ==
    IF label \in DOMAIN labels_to_replace
    THEN FollowLabel(labels_to_replace, label, Cardinality(DOMAIN labels_to_replace))
    ELSE label

_replace_labels(ops, labels_to_replace) ==
    [i \in DOMAIN ops |->
        IF ops[i].op \in {"co_label", "co_branch"}
        THEN [ops[i] EXCEPT !.args[1] = ReplaceLabel(labels_to_replace, @)]
        ELSE IF ops[i].op \in {"co_branch_conditional", "co_branch_loop"}
        THEN [ops[i] EXCEPT !.args = [j \in DOMAIN @ |-> ReplaceLabel(labels_to_replace, @[j])]]
        ELSE ops[i]]

\* the least and the greatest number of a set of numbers
First(S) == CHOOSE j \in S : \A k \in S : j <= k
Last(S) == CHOOSE j \in S : \A k \in S : k <= j

\* The loop of _fix_empty_blocks, from index i (0-based) down to 0; the
\* indices at which the body of the loop does nothing are passed in one step
RECURSIVE EmptyBlocksFrom(_, _, _, _)
EmptyBlocksFrom(ops, labels_to_replace, protected, i) ==
    LET acts == {j \in 0..i :
                    \/ j >= Len(ops)
                    \/ /\ ops[j + 1].op = "co_label"
                       /\ \/ j + 1 >= Len(ops)
                          \/ /\ ops[j + 2].op = "co_branch"
                             /\ ops[j + 1].args[1] \notin protected}
        j == Last(acts)
    IN IF acts = {}
       THEN [ops |-> ops, labels_to_replace |-> labels_to_replace, result |-> "running"]
       ELSE IF j + 1 >= Len(ops)
       THEN [ops |-> ops, labels_to_replace |-> labels_to_replace, result |-> "IndexError"]
       ELSE EmptyBlocksFrom(PySlice(ops, 0, j) \o PySlice(ops, j + 2, Len(ops)),
                            _set_new_label(labels_to_replace, ops[j + 1].args[1],
                                           ops[j + 2].args[1]),
                            protected, j - 1)

\* _fix_empty_blocks that leaves the references to the removed labels
_fix_empty_blocks_no_replace(ops, protected) ==
    LET r == EmptyBlocksFrom(ops, EmptyDict, protected, Len(ops) - 2)
    IN [ops |-> r.ops, result |-> r.result]

\* _fix_empty_blocks: [ops, result].  When the replacements form a cycle
\* (label L; branch L), the `while` of _replace_labels never ends: the
\* call does not return, which is the result "endless loop".
_fix_empty_blocks(ops, protected) ==
    LET r == EmptyBlocksFrom(ops, EmptyDict, protected, Len(ops) - 2)
        endless == \E key \in DOMAIN r.labels_to_replace :
                      FollowLabel(r.labels_to_replace, key,
                                  Cardinality(DOMAIN r.labels_to_replace))
                        \in DOMAIN r.labels_to_replace
    IN IF r.result # "running" THEN [ops |-> r.ops, result |-> r.result]
       ELSE IF endless THEN [ops |-> r.ops, result |-> "endless loop"]
       ELSE [ops |-> _replace_labels(r.ops, r.labels_to_replace), result |-> "running"]

\* A renaming that counts every co_label, also those it does not rename
RECURSIVE ConsistentLabelsCountingAll(_, _, _, _)
ConsistentLabelsCountingAll(ops, labels_to_replace, count, i) ==
    LET acts == {j \in i..Len(ops) : ops[j].op = "co_label"}
        j == First(acts)
    IN IF acts = {} THEN labels_to_replace
       ELSE ConsistentLabelsCountingAll(ops,
                IF StartsWithL(ops[j].args[1]) THEN labels_to_replace
                ELSE _set_new_label(labels_to_replace, ops[j].args[1], Tok("L", count + 1)),
                count + 1, j + 1)

\* The loop of _fix_consistent_labels over the ops from index i (1-based);
\* the ops that are no co_label to rename are passed in one step
RECURSIVE ConsistentLabelsFrom(_, _, _, _)
ConsistentLabelsFrom(ops, labels_to_replace, count, i) ==
    LET acts == {j \in i..Len(ops) : ops[j].op = "co_label" /\ ~StartsWithL(ops[j].args[1])}
        j == First(acts)
    IN IF acts = {} THEN labels_to_replace
       ELSE ConsistentLabelsFrom(ops,
                _set_new_label(labels_to_replace, ops[j].args[1], Tok("L", count + 1)),
                count + 1, j + 1)

_fix_consistent_labels(ops) ==
    _replace_labels(ops, ConsistentLabelsFrom(ops, EmptyDict, 0, 1))

\* cur_block of _get_block_to_resolve before the first co_label
NoBlock == Tok("None", 0)

\* _get_block_to_resolve, from index i (1-based): <<i_ins, i_label, i_cond>>
\* (1-based), or <<>> for None.  The ops up to the next conditional branch
\* are passed in one step: the last co_label among them is the block.
RECURSIVE GetBlockFrom(_, _, _, _, _)
GetBlockFrom(ops, conditional_branches, cur_block, cur_block_i, i) ==
    LET conds == {j \in i..Len(ops) : ops[j].op = "co_branch_conditional"}
        i_cond == First(conds)
        labels == {j \in i..i_cond : ops[j].op = "co_label"}
        block_i == IF labels = {} THEN cur_block_i ELSE Last(labels)
        block == IF labels = {} THEN cur_block ELSE ops[block_i].args[1]
        args == ops[i_cond].args
        key == IF args[1] \in DOMAIN conditional_branches THEN args[1]
               ELSE IF args[2] \in DOMAIN conditional_branches THEN args[2]
               ELSE NoBlock
    IN IF conds = {} THEN <<>>
       ELSE IF key # NoBlock /\ conditional_branches[key].other = block
       THEN <<conditional_branches[key].ii, block_i, i_cond>>
       ELSE GetBlockFrom(ops,
                Put(Put(conditional_branches, args[1], [other |-> args[2], ii |-> i_cond]),
                    args[2], [other |-> args[1], ii |-> i_cond]),
                block, block_i, i_cond + 1)

_get_block_to_resolve(ops) == GetBlockFrom(ops, EmptyDict, NoBlock, 1, 1)

\* ResolveBlock with `or` in the place of `and` when the false labels of the
\* two branches coincide
ResolveBlock_or_when_both_false(ops, block) ==
    LET i_ins == block[1]
        i_label == block[2]
        i_cond == block[3]
        labels1 == ops[i_ins].args
        labels2 == ops[i_cond].args
        selection == PySlice(ops, i_label, i_cond - 1)
        ripped == PySlice(ops, 0, i_label - 1) \o PySlice(ops, i_cond, Len(ops))
        not == Op1("co_unary_op", Str("not"))
        or == Op1("co_binary_op", Str("or"))
        and == Op1("co_binary_op", Str("and"))
        combined ==
            IF labels1[1] = labels2[1]
            THEN selection \o <<or, Op2("co_branch_conditional", labels1[1], labels2[2])>>
            ELSE IF labels1[1] = labels2[2]
            THEN selection \o <<not, or, Op2("co_branch_conditional", labels1[1], labels2[1])>>
            ELSE IF labels1[2] = labels2[1]
            THEN <<not>> \o selection
                 \o <<or, Op2("co_branch_conditional", labels1[2], labels2[2])>>
            ELSE IF labels1[2] = labels2[2]
            THEN selection \o <<or, not, Op2("co_branch_conditional", labels1[2], labels2[1])>>
            ELSE selection
    IN PySlice(ripped, 0, i_ins - 1) \o combined \o PySlice(ripped, i_ins, Len(ripped))

\* One turn of the `while True` loop of _fix_or_control_flow on a block
ResolveBlock(ops, block) ==
    LET i_ins == block[1]
        i_label == block[2]
        i_cond == block[3]
        labels1 == ops[i_ins].args
        labels2 == ops[i_cond].args
        selection == PySlice(ops, i_label, i_cond - 1)
        ripped == PySlice(ops, 0, i_label - 1) \o PySlice(ops, i_cond, Len(ops))
        not == Op1("co_unary_op", Str("not"))
        or == Op1("co_binary_op", Str("or"))
        and == Op1("co_binary_op", Str("and"))
        combined ==
            IF labels1[1] = labels2[1]
            THEN selection \o <<or, Op2("co_branch_conditional", labels1[1], labels2[2])>>
            ELSE IF labels1[1] = labels2[2]
            THEN selection \o <<not, or, Op2("co_branch_conditional", labels1[1], labels2[1])>>
            ELSE IF labels1[2] = labels2[1]
            THEN <<not>> \o selection
                 \o <<or, Op2("co_branch_conditional", labels1[2], labels2[2])>>
            ELSE IF labels1[2] = labels2[2]
            THEN selection \o <<and, not, Op2("co_branch_conditional", labels1[2], labels2[1])>>
            ELSE selection
    IN PySlice(ripped, 0, i_ins - 1) \o combined \o PySlice(ripped, i_ins, Len(ripped))

\* An or-normalization that resolves the first block it detects and stops
_fix_or_control_flow_once(ops) ==
    IF _get_block_to_resolve(ops) = <<>> THEN ops
    ELSE ResolveBlock(ops, _get_block_to_resolve(ops))

RECURSIVE _fix_or_control_flow(_)
_fix_or_control_flow(ops) ==
    IF _get_block_to_resolve(ops) = <<>> THEN ops
    ELSE _fix_or_control_flow(ResolveBlock(ops, _get_block_to_resolve(ops)))

(***************************************************************************)
(* The or-normalization on op lists.  An op list is built from conditional *)
(* branches with at most one label between two of them, up to the renaming *)
(* of its labels; the pass then runs on it, and runs again on its output.  *)
(***************************************************************************)
MaxConds == 3

NumConds == Len(SelectSeq(_opcodes, LAMBDA op : op.op = "co_branch_conditional"))

AppendOps(ops) ==
    /\ pc = "build"
    /\ _opcodes' = _opcodes \o ops
    /\ UNCHANGED <<mode, pc, result, ip, converter, bevars>>

AppendLabel ==
    /\ NumConds < MaxConds
    /\ IF _opcodes = <<>> THEN TRUE ELSE _opcodes[Len(_opcodes)].op # "co_label"
    /\ \E n \in 1..Min(UsedLabels + 1, NumLabels) : AppendOps(<<Op1("co_label", Lab(n))>>)

\* a conditional branch comes with the op that computes its condition
AppendCond ==
    /\ NumConds < MaxConds
    /\ \E a \in 1..Min(UsedLabels + 1, NumLabels) :
         \E b \in 1..Min(Max(UsedLabels, a) + 1, NumLabels) :
            AppendOps(<<Op1("co_load_name", Tok("c", NumConds + 1)),
                        Op2("co_branch_conditional", Lab(a), Lab(b))>>)

FixOrControlFlow ==
    /\ pc \in {"build", "fixed"}
    /\ _opcodes' = _fix_or_control_flow(_opcodes)
    /\ pc' = "fixed"
    /\ UNCHANGED <<mode, result, ip, converter, bevars>>

InitOr == mode = "passes" /\ pc = "build" /\ _opcodes = <<>> /\ InitGenerator(<<>>, <<>>)

NextOr == AppendLabel \/ AppendCond \/ FixOrControlFlow

SpecOr == InitOr /\ [][NextOr]_vars

\* C3: _fix_or_control_flow is idempotent: on its own output it changes
\* nothing
C3_FixOrIdempotent ==
    pc = "fixed" => _fix_or_control_flow(_opcodes) = _opcodes

\* the pass has run on `a or b or c`: it resolved two blocks
C3_Witness ==
    /\ pc = "fixed"
    /\ Len(SelectSeq(_opcodes, LAMBDA op : op.op = "co_load_name")) = 3
    /\ Len(SelectSeq(_opcodes, LAMBDA op : op.op = "co_binary_op")) = 2
    /\ NumConds = 1

(***************************************************************************)
(* The front end on a Python function (PyBytecode2Bytecode.convert).       *)
(*                                                                         *)
(* The code object is a sequence of instructions [op, arg] of two bytes    *)
(* each, so that the instruction at byte position p is code[p \div 2 + 1]; *)
(* self._pointer counts bytes.  The variable co_varnames[i] is the name    *)
(* Tok("name", i); as the argument i of a resource of kind k its qualified *)
(* name k + "." + name is Tok(k, i), and iter_name + "-step" is            *)
(* Tok("name-step", i).  A value on self._stack is a token: a constant     *)
(* Tok("int", v), None Tok("None", 0), a name, a global "." + co_names[i]  *)
(* Tok(".", i), or the marker "range".                                     *)
(***************************************************************************)
co_consts == <<Tok("None", 0), Tok("int", 1), Tok("int", 0),
              Tok("int", 2), Tok("int", 3), Tok("int", 4)>>
co_names == <<Str("range"), Str("foo")>>

Instr(op, arg) == [op |-> op, arg |-> arg]

\* self._co.co_code[p]: an opcode at an even position, its argument after it
Byte(code, p) == IF p % 2 = 0 THEN code[p \div 2 + 1].op ELSE code[p \div 2 + 1].arg

_next(c) == [c EXCEPT !._pointer = @ + 1]

BranchOps == {"co_branch", "co_branch_conditional", "co_branch_loop"}

\* emit, for each op of `ops` in turn; an exception ends it
RECURSIVE emit(_, _)
emit(c, ops) ==
    IF ops = <<>> \/ c.result # "running" THEN c
    ELSE IF Head(ops).op = "co_branch" /\ c._opcodes = <<>> THEN Raise(c, "IndexError")
    ELSE IF Head(ops).op = "co_branch" /\ c._opcodes[Len(c._opcodes)].op \in BranchOps
    THEN Raise(c, "AssertionError")
    ELSE emit([c EXCEPT !._opcodes = Append(@, Head(ops))], Tail(ops))

\* _get_label: the converter after the call, and the label returned
_get_label(c, pointer_pos) ==
    LET loop_labels == IF c._loop_stack = <<>> THEN EmptyDict
                       ELSE c._loop_stack[Len(c._loop_stack)].labelmap
    IN IF pointer_pos \in DOMAIN loop_labels
       THEN [c |-> c, label |-> loop_labels[pointer_pos]]
       ELSE IF pointer_pos \notin DOMAIN c._labels
       THEN [c |-> [c EXCEPT !._labels = Put(@, pointer_pos, Tok("", pointer_pos))],
             label |-> Tok("", pointer_pos)]
       ELSE [c |-> c, label |-> c._labels[pointer_pos]]

\* `jumps` of _pre_detect_loops: the positions of the jumps, and the target
\* of the jump at position i
Jumps(code) ==
    {i \in {2 * (k - 1) : k \in DOMAIN code} :
        Byte(code, i) \in {"JUMP_ABSOLUTE", "JUMP_FORWARD",
                           "POP_JUMP_IF_FALSE", "POP_JUMP_IF_TRUE"}}
JumpTarget(code, i) ==
    IF Byte(code, i) = "JUMP_FORWARD" THEN i + Byte(code, i + 1) + 2
    ELSE Byte(code, i + 1)

\* _pre_detect_loop: the loop_info, and what it adds to
\* self._protected_labels and to self._labels
_pre_detect_loop(code, prev_loops, loop_start) ==
    LET jumps_to_start == {i \in Jumps(code) : JumpTarget(code, i) < i
                                               /\ JumpTarget(code, i) = loop_start}
        last == CHOOSE i \in jumps_to_start : \A j \in jumps_to_start : j <= i
        our_ends == IF Byte(code, last + 2) = "POP_BLOCK"
                    THEN <<last + 2, last + 4>> ELSE <<last + 2>>
        ends == Range(our_ends)
                \cup {prev_loops[k].start : k \in DOMAIN prev_loops}
                \cup {prev_loops[k].end : k \in DOMAIN prev_loops}
        after == {i \in Jumps(code) : i > loop_start}
        first == CHOOSE i \in after : \A j \in after : i <= j
        first_jump_is_to_end ==
            /\ after # {}
            /\ \/ JumpTarget(code, first) \in ends
               \/ Byte(code, JumpTarget(code, first)) = "BREAK_LOOP"
        type == IF Byte(code, loop_start) = "FOR_ITER" THEN "for" ELSE "while"
        loop_idx == Len(prev_loops) + 1
    IN [info |-> [type |-> type, start |-> loop_start,
                  end |-> our_ends[Len(our_ends)],
                  first_jump_is_to_end |-> first_jump_is_to_end,
                  idx |-> loop_idx,
                  labelmap |-> [x \in {loop_start} \cup ends |->
                                  IF x \in ends THEN Tok("Lm", loop_idx)
                                  ELSE Tok("Lc", loop_idx)],
                  range_is_set |-> FALSE, iter_name |-> Tok("None", 0)],
        protected |-> {Tok("int", loop_start)} \cup {Tok("int", e) : e \in Range(our_ends)}
                      \cup {Tok(l, loop_idx) : l \in {"Li", "Lc", "Lm", "Lb"}},
        labels |-> IF first_jump_is_to_end /\ type = "while"
                   THEN [x \in {first + 2} |-> Tok("Lb", loop_idx)] ELSE EmptyDict]

\* _pre_detect_loops, from the loop starts not yet handled (they are met
\* in sorted order): r holds the loop_infos, self._protected_labels and
\* self._labels so far
RECURSIVE _pre_detect_loops(_, _, _)
_pre_detect_loops(code, loop_starts, r) ==
    IF loop_starts = {} THEN r
    ELSE LET loop_start == CHOOSE x \in loop_starts : \A y \in loop_starts : x <= y
             d == _pre_detect_loop(code, r.loops, loop_start)
         IN _pre_detect_loops(code, loop_starts \ {loop_start},
                [loops |-> Append(r.loops, d.info),
                 _protected_labels |-> r._protected_labels \cup d.protected,
                 _labels |-> [x \in DOMAIN r._labels \cup DOMAIN d.labels |->
                                IF x \in DOMAIN d.labels THEN d.labels[x]
                                ELSE r._labels[x]]])

\* convert, up to the call of _convert: the loops are detected, the entry
\* point and the resources of the annotated arguments are emitted; a slot
\* given as a tuple is emitted as a list
convert(co) ==
    LET pre == _pre_detect_loops(co.code,
                   {JumpTarget(co.code, i) : i \in {j \in Jumps(co.code) :
                                                     JumpTarget(co.code, j) < j}},
                   [loops |-> <<>>, _protected_labels |-> {}, _labels |-> EmptyDict])
    IN [co |-> co, _pointer |-> 0, _stack |-> <<>>,
        _labels |-> pre._labels, _protected_labels |-> pre._protected_labels,
        _loops_to_handle |-> pre.loops, _loop_stack |-> <<>>,
        resources |-> [i \in 0..(Len(co.annotations) - 1) |-> co.annotations[i + 1].kind],
        _opcodes |-> <<Op3("co_entrypoint", Str("main"), Str("compute"), Str("{}"))>>
                     \o [i \in DOMAIN co.annotations |->
                           [op |-> "co_resource",
                            args |-> <<Tok(co.annotations[i].kind, i - 1),
                                       Str(co.annotations[i].kind),
                                       IF co.annotations[i].slot.t = "tuple"
                                       THEN [co.annotations[i].slot EXCEPT !.t = "list"]
                                       ELSE co.annotations[i].slot,
                                       co.annotations[i].subtype>>]],
        result |-> "running"]

_start_loop(c, loop_info) ==
    LET c1 == [c EXCEPT !._loop_stack = Append(@, loop_info)]
        n == loop_info.idx
        i == Byte(c.co.code, c._pointer + 3)
        header == <<Op1("co_branch", Tok("Lh", n)),
                    Op1("co_label", Tok("Lh", n)),
                    Op3("co_branch_loop", Tok("Li", n), Tok("Lc", n), Tok("Lm", n)),
                    Op1("co_label", Tok("Li", n))>>
        test == <<Op2("co_branch_conditional", Tok("Lb", n), Tok("Lm", n)),
                  Op1("co_label", Tok("Lb", n))>>
    IN IF loop_info.type = "for"
       THEN IF ~loop_info.range_is_set THEN Raise(c1, "ShaderError")
            ELSE IF Byte(c.co.code, c._pointer + 2) # "STORE_FAST"
            THEN Raise(c1, "AssertionError")
            ELSE emit([c1 EXCEPT !._loop_stack[Len(c1._loop_stack)].iter_name = Tok("name", i)],
                      <<Op1("co_store_name", Tok("name-step", i)),
                        Op1("co_store_name", Tok("name-stop", i)),
                        Op1("co_store_name", Tok("name-start", i)),
                        Op1("co_load_name", Tok("name-start", i)),
                        Op1("co_store_name", Tok("name", i))>>
                      \o header
                      \o <<Op1("co_load_name", Tok("name", i)),
                           Op1("co_load_name", Tok("name-stop", i)),
                           Op1("co_compare", Str("<"))>>
                      \o test)
       ELSE emit(c1, header \o (IF loop_info.first_jump_is_to_end THEN <<>>
                                ELSE <<Op1("co_load_constant", TrueConst)>> \o test))

\* _end_loop that emits the merge label before the branch to the header
_end_loop_merge_label_first(c) ==
    LET loop_info == c._loop_stack[Len(c._loop_stack)]
        n == loop_info.idx
        c1 == [c EXCEPT !._loop_stack = SubSeq(@, 1, Len(@) - 1)]
    IN emit(c1, <<Op1("co_label", Tok("Lc", n))>>
                \o (IF loop_info.type = "for"
                    THEN <<Op1("co_load_name", loop_info.iter_name),
                           Op1("co_load_name", Tok("name-step", loop_info.iter_name.n)),
                           Op1("co_binary_op", Str("add")),
                           Op1("co_store_name", loop_info.iter_name)>>
                    ELSE <<>>)
                \o <<Op1("co_label", Tok("Lm", n)), Op1("co_branch", Tok("Lh", n))>>)

_end_loop(c) ==
    LET loop_info == c._loop_stack[Len(c._loop_stack)]
        n == loop_info.idx
        c1 == [c EXCEPT !._loop_stack = SubSeq(@, 1, Len(@) - 1)]
    IN emit(c1, <<Op1("co_label", Tok("Lc", n))>>
                \o (IF loop_info.type = "for"
                    THEN <<Op1("co_load_name", loop_info.iter_name),
                           Op1("co_load_name", Tok("name-step", loop_info.iter_name.n)),
                           Op1("co_binary_op", Str("add")),
                           Op1("co_store_name", loop_info.iter_name)>>
                    ELSE <<>>)
                \o <<Op1("co_branch", Tok("Lh", n)), Op1("co_label", Tok("Lm", n))>>)

\* Begin that emits the label of the address without a branch before it
Begin_without_implicit_branch(c) ==
    LET p == c._pointer
        c1 == IF c._loops_to_handle # <<>> /\ p = Head(c._loops_to_handle).start
              THEN _start_loop([c EXCEPT !._loops_to_handle = Tail(@)],
                               Head(c._loops_to_handle))
              ELSE IF c._loop_stack # <<>> /\ p = c._loop_stack[Len(c._loop_stack)].end
              THEN _end_loop(c)
              ELSE IF p \in DOMAIN c._labels /\ Tok("int", p) \notin c._protected_labels
              THEN emit(c, <<Op1("co_label", c._labels[p])>>)
              ELSE c
    IN IF c1.result # "running" THEN c1 ELSE _next(c1)

\* The top of a turn of the loop of _convert: a loop starts or ends here,
\* or the block of a label starts; then _next() reads the opcode
Begin(c) ==
    LET p == c._pointer
        c1 == IF c._loops_to_handle # <<>> /\ p = Head(c._loops_to_handle).start
              THEN _start_loop([c EXCEPT !._loops_to_handle = Tail(@)],
                               Head(c._loops_to_handle))
              ELSE IF c._loop_stack # <<>> /\ p = c._loop_stack[Len(c._loop_stack)].end
              THEN _end_loop(c)
              ELSE IF p \in DOMAIN c._labels /\ Tok("int", p) \notin c._protected_labels
              THEN emit(c, (IF c._opcodes[Len(c._opcodes)].op \in BranchOps THEN <<>>
                            ELSE <<Op1("co_branch", c._labels[p])>>)
                           \o <<Op1("co_label", c._labels[p])>>)
              ELSE c
    IN IF c1.result # "running" THEN c1 ELSE _next(c1)

\* range(stop) with the start 0 pushed after the stop and left there
_call_function_no_rot(c, func, args) ==
    LET nargs == Len(args)
        p == c._pointer
    IN IF func.p = "texture"
       THEN IF c._stack = <<>> THEN Raise(c, "IndexError")
            ELSE IF Top(c).p # "texture" THEN Raise(Pop(c), "AssertionError")
            ELSE Push(emit(Pop(c), <<Op2("co_call", Tok("name", func.n), Tok("int", nargs + 1))>>),
                      Tok("None", 0))
       ELSE IF func.p # "." THEN Raise(c, "ShaderError")
       ELSE IF co_names[func.n + 1] = Str("range")
       THEN IF ~(Byte(c.co.code, p) = "GET_ITER" /\ Byte(c.co.code, p + 2) = "FOR_ITER")
            THEN Raise(c, "ShaderError")
            ELSE IF c._loops_to_handle = <<>> THEN Raise(c, "IndexError")
            ELSE IF Head(c._loops_to_handle).start # p + 2 THEN Raise(c, "AssertionError")
            ELSE LET c1 == [c EXCEPT !._loops_to_handle[1].range_is_set = TRUE]
                     c2 == IF nargs = 1
                           THEN emit(c1, <<Op1("co_load_constant", Tok("int", 0)),
                                           Op1("co_load_constant", Tok("int", 1))>>)
                           ELSE IF nargs = 2
                           THEN emit(c1, <<Op1("co_load_constant", Tok("int", 1))>>)
                           ELSE IF nargs = 3
                           THEN IF args[3].p \in {"int", "bool"} /\ args[3].n > 0 THEN c1
                                ELSE Raise(c1, "ShaderError")
                           ELSE Raise(c1, "ShaderError")
                 IN IF c2.result # "running" THEN c2 ELSE Push(c2, Str("range"))
       ELSE Push(emit(c, <<Op2("co_call", co_names[func.n + 1], Tok("int", nargs))>>),
                 Tok("None", 0))

_call_function(c, func, args) ==
    LET nargs == Len(args)
        p == c._pointer
    IN IF func.p = "texture"
       THEN IF c._stack = <<>> THEN Raise(c, "IndexError")
            ELSE IF Top(c).p # "texture" THEN Raise(Pop(c), "AssertionError")
            ELSE Push(emit(Pop(c), <<Op2("co_call", Tok("name", func.n), Tok("int", nargs + 1))>>),
                      Tok("None", 0))
       ELSE IF func.p # "." THEN Raise(c, "ShaderError")
       ELSE IF co_names[func.n + 1] = Str("range")
       THEN IF ~(Byte(c.co.code, p) = "GET_ITER" /\ Byte(c.co.code, p + 2) = "FOR_ITER")
            THEN Raise(c, "ShaderError")
            ELSE IF c._loops_to_handle = <<>> THEN Raise(c, "IndexError")
            ELSE IF Head(c._loops_to_handle).start # p + 2 THEN Raise(c, "AssertionError")
            ELSE LET c1 == [c EXCEPT !._loops_to_handle[1].range_is_set = TRUE]
                     c2 == IF nargs = 1
                           THEN emit(c1, <<Op1("co_load_constant", Tok("int", 0)),
                                           Op0("co_rot_two"),
                                           Op1("co_load_constant", Tok("int", 1))>>)
                           ELSE IF nargs = 2
                           THEN emit(c1, <<Op1("co_load_constant", Tok("int", 1))>>)
                           ELSE IF nargs = 3
                           THEN IF args[3].p \in {"int", "bool"} /\ args[3].n > 0 THEN c1
                                ELSE Raise(c1, "ShaderError")
                           ELSE Raise(c1, "ShaderError")
                 IN IF c2.result # "running" THEN c2 ELSE Push(c2, Str("range"))
       ELSE Push(emit(c, <<Op2("co_call", co_names[func.n + 1], Tok("int", nargs))>>),
                 Tok("None", 0))

(***************************************************************************)
(* One action for each instruction the loop of _convert dispatches: the    *)
(* top of the turn, then the method of the instruction.                    *)
(***************************************************************************)
Converting ==
    /\ pc = "convert"
    /\ result = "running"
    /\ converter._pointer < 2 * Len(converter.co.code)

\* The turn on the instruction `opname` leaves the converter c
Turn(opname, c) ==
    /\ Byte(converter.co.code, converter._pointer) = opname
    /\ converter' = c
    /\ _opcodes' = c._opcodes
    /\ result' = c.result
    /\ pc' = IF c.result # "running" THEN "done" ELSE pc
    /\ UNCHANGED <<mode, ip, bevars>>

\* the converter after the method has read its argument, and the argument
Arg(c) == Byte(c.co.code, c._pointer)

\* a return that emits nothing wherever it stands
_op_return_value_silent ==
    /\ Converting
    /\ Turn("RETURN_VALUE",
         LET c == Begin(converter)
             c1 == _next(c)
         IN IF c.result # "running" THEN c
            ELSE IF c1._stack = <<>> THEN Raise(c1, "IndexError")
            ELSE IF Top(c1).p # "None" THEN Raise(Pop(c1), "AssertionError")
            ELSE Pop(c1))

_op_return_value ==
    /\ Converting
    /\ Turn("RETURN_VALUE",
         LET c == Begin(converter)
             c1 == _next(c)
         IN IF c.result # "running" THEN c
            ELSE IF c1._stack = <<>> THEN Raise(c1, "IndexError")
            ELSE IF Top(c1).p # "None" THEN Raise(Pop(c1), "AssertionError")
            ELSE IF c1._pointer = 2 * Len(c1.co.code) THEN Pop(c1)
            ELSE emit(Pop(c1), <<Op0("co_return")>>))

_op_pop_top ==
    /\ Converting
    /\ Turn("POP_TOP",
         LET c == Begin(converter)
             c1 == _next(c)
         IN IF c.result # "running" THEN c
            ELSE IF c1._stack = <<>> THEN Raise(c1, "IndexError")
            ELSE emit(Pop(c1), <<Op0("co_pop_top")>>))

_op_load_fast ==
    /\ Converting
    /\ Turn("LOAD_FAST",
         LET c == Begin(converter)
             i == Arg(c)
             name == IF i \in DOMAIN c.resources THEN Tok(c.resources[i], i)
                     ELSE Tok("name", i)
         IN IF c.result # "running" THEN c
            ELSE Push(emit(_next(c), <<Op1("co_load_name", name)>>), name))

_op_store_fast ==
    /\ Converting
    /\ Turn("STORE_FAST",
         LET c == Begin(converter)
             i == Arg(c)
             name == IF i \in DOMAIN c.resources THEN Tok(c.resources[i], i)
                     ELSE Tok("name", i)
         IN IF c.result # "running" THEN c
            ELSE IF c._stack = <<>> THEN Raise(_next(c), "IndexError")
            ELSE emit(Pop(_next(c)), <<Op1("co_store_name", name)>>))

_op_load_const ==
    /\ Converting
    /\ Turn("LOAD_CONST",
         LET c == Begin(converter)
             ob == co_consts[Arg(c) + 1]
         IN IF c.result # "running" THEN c
            ELSE IF ob.p \in {"float", "int", "bool"}
            THEN Push(emit(_next(c), <<Op1("co_load_constant", ob)>>), ob)
            ELSE IF ob.p = "None" THEN Push(_next(c), ob)
            ELSE Raise(_next(c), "ShaderError"))

_op_load_global ==
    /\ Converting
    /\ Turn("LOAD_GLOBAL",
         LET c == Begin(converter)
         IN IF c.result # "running" THEN c
            ELSE Push(_next(c), Tok(".", Arg(c))))

_op_call_function ==
    /\ Converting
    /\ Turn("CALL_FUNCTION",
         LET c == Begin(converter)
             nargs == Arg(c)
             c1 == _next(c)
             args == IF nargs = 0 THEN c1._stack
                     ELSE SubSeq(c1._stack, Max(1, Len(c1._stack) - nargs + 1), Len(c1._stack))
             c2 == [c1 EXCEPT !._stack = SubSeq(@, 1, Len(@) - Len(args))]
         IN IF c.result # "running" THEN c
            ELSE IF Len(args) # nargs THEN Raise(c1, "AssertionError")
            ELSE IF c2._stack = <<>> THEN Raise(c2, "IndexError")
            ELSE IF Top(c2).p \in {"int", "bool", "float", "None"}
            THEN Raise(Pop(c2), "AssertionError")
            ELSE _call_function(Pop(c2), Top(c2), args))

_op_compare_op ==
    /\ Converting
    /\ Turn("COMPARE_OP",
         LET c == Begin(converter)
             c1 == _next(c)
             cmp_op == <<"<", "<=", "==", "!=", ">", ">=">>
         IN IF c.result # "running" THEN c
            ELSE IF Arg(c) + 1 \notin DOMAIN cmp_op THEN Raise(c1, "ShaderError")
            ELSE IF Len(c1._stack) < 2 THEN Raise(c1, "IndexError")
            ELSE emit(Push(Pop(Pop(c1)), Tok("None", 0)),
                      <<Op1("co_compare", Str(cmp_op[Arg(c) + 1]))>>))

_op_jump_absolute ==
    /\ Converting
    /\ Turn("JUMP_ABSOLUTE",
         LET c == Begin(converter)
             r == _get_label(_next(c), Arg(c))
             ops == r.c._opcodes
         IN IF c.result # "running" THEN c
            ELSE IF r.label.p = "Lm" /\ ops[Len(ops)].op = "co_pop_top"
            THEN emit([r.c EXCEPT !._opcodes = SubSeq(ops, 1, Len(ops) - 1)],
                      <<Op1("co_branch", r.label)>>)
            ELSE emit(r.c, <<Op1("co_branch", r.label)>>))

_op_jump_forward ==
    /\ Converting
    /\ Turn("JUMP_FORWARD",
         LET c == Begin(converter)
             c1 == _next(c)
             r == _get_label(c1, c1._pointer + Arg(c))
         IN IF c.result # "running" THEN c
            ELSE IF c1._opcodes[Len(c1._opcodes)].op \in BranchOps THEN c1
            ELSE emit(r.c, <<Op1("co_branch", r.label)>>))

_op_pop_jump_if_false ==
    /\ Converting
    /\ Turn("POP_JUMP_IF_FALSE",
         LET c == Begin(converter)
             c1 == Pop(_next(c))
             r1 == _get_label(c1, c1._pointer)
             r2 == _get_label(r1.c, Arg(c))
         IN IF c.result # "running" THEN c
            ELSE IF c._stack = <<>> THEN Raise(_next(c), "IndexError")
            ELSE emit(r2.c, <<Op2("co_branch_conditional", r1.label, r2.label)>>))

_op_pop_jump_if_true ==
    /\ Converting
    /\ Turn("POP_JUMP_IF_TRUE",
         LET c == Begin(converter)
             c1 == Pop(_next(c))
             r1 == _get_label(c1, Arg(c))
             r2 == _get_label(r1.c, c1._pointer)
         IN IF c.result # "running" THEN c
            ELSE IF c._stack = <<>> THEN Raise(_next(c), "IndexError")
            ELSE emit(r2.c, <<Op2("co_branch_conditional", r1.label, r2.label)>>))

\* `xx or yy` where the value is needed; the argument is not read
_op_jump_if_true_or_pop ==
    /\ Converting
    /\ Turn("JUMP_IF_TRUE_OR_POP",
         LET c == Begin(converter)
         IN IF c.result # "running" THEN c ELSE Raise(c, "ShaderError"))

\* the `and` deferred to the target of the jump, the conversion going on
_op_jump_if_false_or_pop_defers ==
    /\ Converting
    /\ Turn("JUMP_IF_FALSE_OR_POP",
         LET c == Begin(converter)
         IN IF c.result # "running" THEN c ELSE _next(_next(c)))

\* `xx and yy` where the value is needed
_op_jump_if_false_or_pop ==
    /\ Converting
    /\ Turn("JUMP_IF_FALSE_OR_POP",
         LET c == Begin(converter)
         IN IF c.result # "running" THEN c ELSE Raise(c, "ShaderError"))

_op_get_iter ==
    /\ Converting
    /\ Turn("GET_ITER",
         LET c == Begin(converter)
             c1 == _next(c)
         IN IF c.result # "running" THEN c
            ELSE IF c1._stack = <<>> THEN Raise(c1, "IndexError")
            ELSE IF Top(c1) # Str("range") THEN Raise(Pop(c1), "ShaderError")
            ELSE c1)

_op_for_iter ==
    /\ Converting
    /\ Turn("FOR_ITER",
         LET c == Begin(converter)
             c1 == _next(c)
             target == c1._pointer + Arg(c)
             here == c1._pointer - 2
             c3 == _next(_next(c1))
             loop_info == c3._loop_stack[Len(c3._loop_stack)]
         IN IF c.result # "running" THEN c
            ELSE IF c3._loop_stack = <<>> THEN Raise(c3, "KeyError")
            ELSE IF \/ here # loop_info.start
                    \/ target \notin {loop_info.end, loop_info.end - 2}
                    \/ Byte(c.co.code, c1._pointer) # "STORE_FAST"
                    \/ Tok("name", Byte(c.co.code, c1._pointer + 1)) # loop_info.iter_name
            THEN Raise(c3, "AssertionError")
            ELSE c3)

\* The end of the bytecode: the passes of _convert, in their order, and
\* the co_func_end of convert; in the pipeline the back end then starts on
\* the NSB with its pre-pass
ConvertEnd ==
    /\ pc = "convert"
    /\ result = "running"
    /\ converter._pointer >= 2 * Len(converter.co.code)
    /\ \E r \in {_fix_empty_blocks(converter._opcodes, converter._protected_labels)} :
       \E ops \in {IF r.result = "running" THEN _fix_or_control_flow(r.ops) ELSE r.ops} :
       \E c \in {IF r.result # "running"
                 THEN [converter EXCEPT !._opcodes = r.ops, !.result = r.result]
                 ELSE emit([converter EXCEPT !._opcodes = _fix_consistent_labels(ops)],
                           <<Op0("co_func_end")>>)} :
       \E names \in {IF mode = "pipeline" THEN PreParse(c._opcodes)
                     ELSE [save |-> EmptyDict, load |-> EmptyDict]} :
          /\ converter' = [c EXCEPT !.result = IF @ = "running" /\ mode = "frontend"
                                               THEN "ok" ELSE @]
          /\ _opcodes' = c._opcodes
          /\ result' = converter'.result
          /\ pc' = IF c.result = "running" /\ mode = "pipeline" THEN "generate" ELSE "done"
          /\ _need_name_var_save' = names.save
          /\ _need_name_var_load' = names.load
          /\ UNCHANGED <<mode, ip, _stack, _name_ids, _name_variables, _labels, branches,
                         _current_branch, placeholders, functions, next_id, iodicts,
                         _slotmap, _constants>>

(***************************************************************************)
(* The Python functions given to the front end: statements nested up to    *)
(* MaxNest deep, compiled as CPython 3.8 compiles them.  A body ends with  *)
(* an assignment or with a return, so that no jump targets another jump.   *)
(* The variables are x, i and n (0, 1 and 2 in co_varnames).               *)
(***************************************************************************)
MaxNest == 2

Stmt(k, it, b) == [k |-> k, it |-> it, b |-> b]

\* `x = 1`
Assign == Stmt("assign", 0, <<>>)

\* The expression after `in` in a for statement: range(2, 3, 4, 4) cut to
\* its first 0 to 4 arguments (0..4), range(1, 1, 0) (5), range(1, 1, n)
\* (6), foo(1) (7), n (8) and n(1) (9)
Iter(it) ==
    IF it <= 4
    THEN <<Instr("LOAD_GLOBAL", 0)>>
         \o [j \in 1..it |-> Instr("LOAD_CONST", Min(j, 3) + 2)]
         \o <<Instr("CALL_FUNCTION", it)>>
    ELSE IF it <= 6
    THEN <<Instr("LOAD_GLOBAL", 0), Instr("LOAD_CONST", 1), Instr("LOAD_CONST", 1),
           IF it = 5 THEN Instr("LOAD_CONST", 2) ELSE Instr("LOAD_FAST", 2),
           Instr("CALL_FUNCTION", 3)>>
    ELSE IF it = 7
    THEN <<Instr("LOAD_GLOBAL", 1), Instr("LOAD_CONST", 1), Instr("CALL_FUNCTION", 1)>>
    ELSE IF it = 8 THEN <<Instr("LOAD_FAST", 2)>>
    ELSE <<Instr("LOAD_FAST", 2), Instr("LOAD_CONST", 1), Instr("CALL_FUNCTION", 1)>>

RECURSIVE Bodies(_)
Bodies(d) ==
    IF d = 0 THEN {<<Assign>>}
    ELSE {<<Assign>>}
         \cup {<<s, Assign>> :
                 s \in {Stmt("range", 0, <<>>), Stmt("and", 0, <<>>), Stmt("or", 0, <<>>),
                        \* `if x < 1: return` and `if x < 1: return 1`
                        Stmt("ifret", 0, <<>>), Stmt("ifret", 1, <<>>)}
                       \cup {Stmt(k, 0, b) : k \in {"if", "ifnot", "ifelse", "ifor", "ifornot",
                                                    "ifand", "while"},
                                             b \in Bodies(d - 1)}
                       \cup {Stmt("for", it, b) : it \in 0..9, b \in Bodies(d - 1)}
                       \* `for i in range(2):` with `if x < 1: break` before the body
                       \cup {Stmt("forbreak", 1, b) : b \in Bodies(d - 1)}}

\* the instructions of the statements of `body`, the first one at byte
\* `base`, inside `fors` for loops: a return first pops their iterators
RECURSIVE Asm(_, _, _)
Asm(body, base, fors) ==
    IF body = <<>> THEN <<>>
    ELSE LET s == Head(body)
             n == Len(Asm(s.b, 0, IF s.k \in {"for", "forbreak"} THEN fors + 1 ELSE fors))
             cond == <<Instr("LOAD_FAST", 0), Instr("LOAD_CONST", 1), Instr("COMPARE_OP", 0)>>
             for == base + 2 * (Len(Iter(s.it)) + 1)
             code ==
                 IF s.k = "assign" THEN <<Instr("LOAD_CONST", 1), Instr("STORE_FAST", 0)>>
                 ELSE IF s.k = "range"
                 THEN <<Instr("LOAD_GLOBAL", 0), Instr("LOAD_CONST", 1),
                        Instr("CALL_FUNCTION", 1), Instr("STORE_FAST", 0)>>
                 ELSE IF s.k \in {"and", "or"}
                 THEN <<Instr("LOAD_FAST", 0),
                        Instr(IF s.k = "and" THEN "JUMP_IF_FALSE_OR_POP"
                              ELSE "JUMP_IF_TRUE_OR_POP", base + 6),
                        Instr("LOAD_FAST", 2), Instr("STORE_FAST", 0)>>
                 ELSE IF s.k = "ifret"
                 THEN cond \o <<Instr("POP_JUMP_IF_FALSE", base + 2 * (6 + fors))>>
                      \o [j \in 1..fors |-> Instr("POP_TOP", 0)]
                      \o <<Instr("LOAD_CONST", s.it), Instr("RETURN_VALUE", 0)>>
                 ELSE IF s.k = "if"
                 THEN cond \o <<Instr("POP_JUMP_IF_FALSE", base + 2 * (4 + n))>>
                      \o Asm(s.b, base + 8, fors)
                 ELSE IF s.k = "ifnot"
                 THEN <<Instr("LOAD_FAST", 0), Instr("POP_JUMP_IF_TRUE", base + 2 * (2 + n))>>
                      \o Asm(s.b, base + 4, fors)
                 ELSE IF s.k = "ifelse"
                 THEN cond \o <<Instr("POP_JUMP_IF_FALSE", base + 2 * (5 + n))>>
                      \o Asm(s.b, base + 8, fors)
                      \o <<Instr("JUMP_FORWARD", 4),
                           Instr("LOAD_CONST", 1), Instr("STORE_FAST", 0)>>
                 ELSE IF s.k = "ifor"
                 THEN <<Instr("LOAD_FAST", 0), Instr("POP_JUMP_IF_TRUE", base + 8),
                        Instr("LOAD_FAST", 2), Instr("POP_JUMP_IF_FALSE", base + 2 * (4 + n))>>
                      \o Asm(s.b, base + 8, fors)
                 ELSE IF s.k = "ifornot"
                 THEN <<Instr("LOAD_FAST", 0), Instr("POP_JUMP_IF_TRUE", base + 8),
                        Instr("LOAD_FAST", 2), Instr("POP_JUMP_IF_TRUE", base + 2 * (4 + n))>>
                      \o Asm(s.b, base + 8, fors)
                 ELSE IF s.k = "ifand"
                 THEN <<Instr("LOAD_FAST", 0), Instr("POP_JUMP_IF_FALSE", base + 2 * (4 + n)),
                        Instr("LOAD_FAST", 2), Instr("POP_JUMP_IF_FALSE", base + 2 * (4 + n))>>
                      \o Asm(s.b, base + 8, fors)
                 ELSE IF s.k = "forbreak"
                 THEN Iter(s.it)
                      \o <<Instr("GET_ITER", 0), Instr("FOR_ITER", 2 * (n + 8)),
                           Instr("STORE_FAST", 1)>>
                      \o cond
                      \o <<Instr("POP_JUMP_IF_FALSE", for + 16), Instr("POP_TOP", 0),
                           Instr("JUMP_ABSOLUTE", for + 2 * (n + 9))>>
                      \o Asm(s.b, for + 16, fors + 1)
                      \o <<Instr("JUMP_ABSOLUTE", for)>>
                 ELSE IF s.k = "while"
                 THEN cond \o <<Instr("POP_JUMP_IF_FALSE", base + 2 * (5 + n))>>
                      \o Asm(s.b, base + 8, fors)
                      \o <<Instr("JUMP_ABSOLUTE", base)>>
                 ELSE Iter(s.it)
                      \o <<Instr("GET_ITER", 0), Instr("FOR_ITER", 2 * (n + 2)),
                           Instr("STORE_FAST", 1)>>
                      \o Asm(s.b, for + 4, fors + 1)
                      \o <<Instr("JUMP_ABSOLUTE", for)>>
         IN code \o Asm(Tail(body), base + 2 * Len(code), fors)

InitFE ==
    /\ mode = "frontend"
    /\ pc = "convert"
    \* the body of the function: one statement nested up to MaxNest deep,
    \* two statements that are not nested, or a conditional whose body is
    \* nothing but a loop; the code ends with `return None`
    /\ \E body \in Bodies(MaxNest)
                   \cup {<<b1[1], b2[1], Assign>> : b1, b2 \in Bodies(1) \ {<<Assign>>}}
                   \cup {<<Stmt(k, 0, <<Stmt(loop, 1, <<Assign>>)>>), Assign>> :
                           k \in {"if", "ifnot"}, loop \in {"for", "while"}} :
         converter = convert([code |-> Asm(body, 0, 0) \o <<Instr("LOAD_CONST", 0),
                                                          Instr("RETURN_VALUE", 0)>>,
                              annotations |-> <<>>])
    /\ _opcodes = converter._opcodes
    /\ InitGenerator(<<>>, <<>>)

NextFE ==
    \/ _op_return_value
    \/ _op_pop_top
    \/ _op_load_fast
    \/ _op_store_fast
    \/ _op_load_const
    \/ _op_load_global
    \/ _op_call_function
    \/ _op_compare_op
    \/ _op_jump_absolute
    \/ _op_jump_forward
    \/ _op_pop_jump_if_false
    \/ _op_pop_jump_if_true
    \/ _op_jump_if_true_or_pop
    \/ _op_jump_if_false_or_pop
    \/ _op_get_iter
    \/ _op_for_iter
    \/ ConvertEnd

SpecFE == InitFE /\ [][NextFE]_vars

(***************************************************************************)
(* The whole compilation of a function with annotated arguments: the       *)
(* front end emits one co_resource per argument, the back end declares     *)
(* them.  The body is one assignment, `v = 1`, to an argument or a local.  *)
(***************************************************************************)
\* arguments of the shader function
MaxArgs == 2

Do_co_entrypoint ==
    /\ Generating
    /\ \E op \in NextOps :
         /\ op.op = "co_entrypoint"
         /\ Dispatch(op, co_entrypoint(Self, op.args[1], op.args[2], op.args[3]))

Do_co_resource ==
    /\ Generating
    /\ \E op \in NextOps :
         /\ op.op = "co_resource"
         /\ Dispatch(op, co_resource(Self, op.args[1], op.args[2], op.args[3], op.args[4]))

InitRes ==
    /\ mode = "pipeline"
    /\ pc = "convert"
    /\ \E n \in 1..MaxArgs, v \in 0..MaxArgs :
         /\ v <= n
         \* the slots of the annotations: 0, 1 and the pair (0, 1)
         /\ \E kinds \in [1..n -> Kinds],
               slots \in [1..n -> {[t |-> "int", v |-> <<0>>], [t |-> "int", v |-> <<1>>],
                                   [t |-> "tuple", v |-> <<0, 1>>]}] :
              converter =
                convert([code |-> <<Instr("LOAD_CONST", 1), Instr("STORE_FAST", v),
                                    Instr("LOAD_CONST", 0), Instr("RETURN_VALUE", 0)>>,
                         annotations |->
                           [i \in 1..n |->
                              [kind |-> kinds[i], slot |-> slots[i],
                               subtype |-> IF kinds[i] = "texture" THEN Str("2d f32")
                                           ELSE Str("f32")]]])
    /\ _opcodes = converter._opcodes
    /\ InitGenerator(<<>>, <<>>)

NextRes ==
    \/ _op_load_const
    \/ _op_store_fast
    \/ _op_return_value
    \/ ConvertEnd
    \/ Do_co_entrypoint
    \/ Do_co_resource
    \/ Do_co_load_constant
    \/ Do_co_store_name
    \/ Do_co_func_end
    \/ Finish

SpecRes == InitRes /\ [][NextRes]_vars

(***************************************************************************)
(* Properties of the front end                                             *)
(***************************************************************************)
Converted == mode = "frontend" /\ pc = "done" /\ result = "ok"

\* the labels an op names, and the labels of the NSB in the order of the ops
LabelArgs(op) == IF op.op \in {"co_label"} \cup BranchOps THEN op.args ELSE <<>>
NsbLabels == Concat([i \in DOMAIN _opcodes |-> LabelArgs(_opcodes[i])])
\* the co_label ops whose label is not a label of a loop structure
LoopLabel(l) == l.p \in {"Lh", "Li", "Lc", "Lb", "Lm"}
BlockLabelOps ==
    SelectSeq(_opcodes, LAMBDA op : op.op = "co_label" /\ ~LoopLabel(op.args[1]))

\* C2 as stated: in the NSB of a converted function, the n-th distinct label
\* outside the protected set that is met when scanning the ops is named Ln
C2_NonProtectedLabelsNumbered ==
    Converted =>
        LET np == SelectSeq(NsbLabels, LAMBDA l : l \notin converter._protected_labels)
            first == {i \in DOMAIN np : \A j \in 1..(i - 1) : np[j] # np[i]}
        IN \A i \in first : np[i] = Tok("L", Cardinality({j \in first : j <= i}))

\* C2, amended: in the NSB of a converted function, the labels of the
\* co_label ops that are not labels of a loop structure (header, iter,
\* continue, body, merge) are exactly L1 ... Lk, numbered in the order of
\* their co_label ops with no gaps; the labels of a loop structure keep
\* their names, also the header label, which is not in the protected set
C2_BlockLabelsNumbered ==
    Converted =>
        /\ \A n \in DOMAIN BlockLabelOps : BlockLabelOps[n].args[1] = Tok("L", n)
        /\ \A l \in Range(NsbLabels) :
              l.p = "Lh" => /\ l \notin converter._protected_labels
                            /\ Op1("co_label", l) \in Range(_opcodes)

\* a function with a loop and an if statement was converted: the NSB has
\* the header label of the loop and two numbered labels, and a conditional
\* branch names L2 before any op names L1
C2_Witness ==
    /\ Converted
    /\ Tok("Lh", 1) \in Range(NsbLabels)
    /\ Len(BlockLabelOps) >= 2
    /\ \E i \in DOMAIN _opcodes :
         /\ _opcodes[i].op = "co_branch_conditional"
         /\ _opcodes[i].args[1] = Tok("L", 2)
         /\ \A j \in 1..(i - 1) : Tok("L", 1) \notin Range(LabelArgs(_opcodes[j]))

\* the instruction that the next turn of the loop of _convert dispatches
AtInstr == converter._pointer \div 2 + 1
\* the instruction k of the code is a call of the global range
RangeCallAt(code, k) ==
    /\ code[k].op = "CALL_FUNCTION"
    /\ k - code[k].arg - 1 >= 1
    /\ code[k - code[k].arg - 1] = Instr("LOAD_GLOBAL", 0)
\* ... with 1, 2 or 3 arguments, followed by GET_ITER and FOR_ITER, and
\* with a constant int greater than 0 as the third argument
GoodRangeCallAt(code, k) ==
    /\ RangeCallAt(code, k)
    /\ code[k].arg \in 1..3
    /\ k + 2 <= Len(code)
    /\ code[k + 1].op = "GET_ITER"
    /\ code[k + 2].op = "FOR_ITER"
    /\ code[k].arg = 3 =>
         /\ code[k - 1].op = "LOAD_CONST"
         /\ co_consts[code[k - 1].arg + 1].p = "int"
         /\ co_consts[code[k - 1].arg + 1].n > 0

\* C10: a call of range that is not the iterable of a for-loop, or has 0 or
\* more than 3 arguments, or a step that is not a constant int greater than
\* 0, raises ShaderError, and so does a for-loop over anything else than a
\* call of range
C10_ForOnlyOverRange ==
    [][(/\ Converting
        /\ LET code == converter.co.code
           IN \/ RangeCallAt(code, AtInstr) /\ ~GoodRangeCallAt(code, AtInstr)
              \/ /\ code[AtInstr].op = "GET_ITER"
                 /\ ~(AtInstr > 1 /\ GoodRangeCallAt(code, AtInstr - 1)))
         => result' = "ShaderError"]_vars

\* ... which holds of every call of range but the one without arguments
C10_ExceptNoArguments ==
    [][(/\ Converting
        /\ LET code == converter.co.code
           IN \/ /\ RangeCallAt(code, AtInstr)
                 /\ ~GoodRangeCallAt(code, AtInstr)
                 /\ code[AtInstr].arg # 0
              \/ /\ code[AtInstr].op = "GET_ITER"
                 /\ ~(AtInstr > 1 /\ GoodRangeCallAt(code, AtInstr - 1)))
         => result' = "ShaderError"]_vars

\* `for i in range():` was met, and the conversion ended with another
\* exception than ShaderError
C10_Witness ==
    /\ mode = "frontend"
    /\ pc = "done"
    /\ result \notin {"ok", "ShaderError"}
    /\ converter._pointer = 4
    /\ converter.co.code[2] = Instr("CALL_FUNCTION", 0)
    /\ converter.co.code[3].op = "GET_ITER"

(***************************************************************************)
(* Properties of the resources                                             *)
(***************************************************************************)
\* the namespace and the slot that the declaration `op` asks for: input
\* and output for inputs and outputs, else the bind group, which is 0 for
\* a slot given as an integer
DeclaredSlot(op) ==
    IF op.args[2].p \in {"input", "output"} THEN <<op.args[2].p, op.args[3].v>>
    ELSE <<"bindgroup",
           IF Len(op.args[3].v) = 1 THEN <<0>> \o op.args[3].v ELSE op.args[3].v>>
\* an earlier declaration of the compilation registered the namespace and
\* slot of the declaration that is dispatched
SlotTaken ==
    \E j \in 1..(ip - 1) :
        /\ _opcodes[j].op = "co_resource"
        /\ DeclaredSlot(_opcodes[j]) = DeclaredSlot(_opcodes[ip])

\* C4: a co_resource declaration raises ShaderError if and only if an
\* earlier declaration of the compilation registered the same namespace
\* and slot
C4_DuplicateSlotIff ==
    [][Dispatches("co_resource") => ((result' = "ShaderError") <=> SlotTaken)]_vars

\* ... which holds of the declarations whose slot is an integer
C4_IntegerSlots ==
    [][(Dispatches("co_resource") /\ _opcodes[ip].args[3].t = "int")
         => ((result' = "ShaderError") <=> SlotTaken)]_vars

\* binding 1 of bind group 0 was declared twice, as 1 and as (0, 1), and
\* the compilation ended with a TypeError
C4_Witness ==
    /\ mode = "pipeline"
    /\ pc = "done"
    /\ result = "TypeError"
    /\ LastOp.op = "co_resource"
    /\ LastOp.args[3].v = <<0, 1>>
    /\ \E j \in 1..(ip - 2) :
         /\ _opcodes[j].op = "co_resource"
         /\ _opcodes[j].args[3].v = <<1>>
         /\ DeclaredSlot(_opcodes[j]) = DeclaredSlot(LastOp)

\* C7: co_store_name on a name declared as an input or a uniform raises
\* ShaderError, adds no instruction to the function section and leaves the
\* bindings of names to value ids as they were; the front end emits the
\* store to an input or uniform argument as co_store_name under the
\* qualified name, without an error
C7_NoStoreToInputOrUniform ==
    [][/\ (/\ Dispatches("co_store_name")
           /\ _opcodes[ip].args[1] \in DOMAIN iodicts["input"] \cup DOMAIN iodicts["uniform"])
          => /\ result' = "ShaderError"
             /\ functions' = functions
             /\ _name_ids' = _name_ids
       /\ (/\ Converting
           /\ Byte(converter.co.code, converter._pointer) = "STORE_FAST"
           /\ Arg(_next(converter)) \in DOMAIN converter.resources
           /\ converter.resources[Arg(_next(converter))] \in {"input", "uniform"})
          => /\ result' = "running"
             /\ _opcodes' = Append(_opcodes,
                    Op1("co_store_name",
                        Tok(converter.resources[Arg(_next(converter))], Arg(_next(converter)))))]_vars

\* the compilation of a function that assigns to its uniform argument
\* ended with ShaderError at the co_store_name that the front end emitted
C7_Witness ==
    /\ mode = "pipeline"
    /\ pc = "done"
    /\ result = "ShaderError"
    /\ LastOp.op = "co_store_name"
    /\ LastOp.args[1] \in DOMAIN iodicts["uniform"]
    /\ LastOp.args[1].p = "uniform"

(***************************************************************************)
(* Binary operators on two loaded values: the NSB is a co_binop, or a      *)
(* chain of them on the result and its copy, as for `(a * b) ** 2`.        *)
(***************************************************************************)
\* co_binop ops of the NSB
MaxBinops == 2

Do_co_dup_top ==
    /\ Generating
    /\ \E op \in NextOps : op.op = "co_dup_top" /\ Dispatch(op, co_dup_top(Self))

Do_co_binop ==
    /\ Generating
    /\ \E op \in NextOps : op.op = "co_binop" /\ Dispatch(op, co_binop(Self, op.args[1].p))

InitBinop ==
    /\ mode = "binop"
    /\ pc = "generate"
    \* the binary ops that the front end emits
    /\ \E n \in 1..MaxBinops :
       \E ops \in [1..n -> {"add", "sub", "mul", "div", "mod", "and", "or"}] :
         _opcodes = Concat([i \in 1..n |->
                              (IF i = 1 THEN <<>> ELSE <<Op0("co_dup_top")>>)
                              \o <<Op1("co_binop", Str(ops[i]))>>])
    \* scalars, vectors of 2 and 3 elements, and matrices of float
    /\ \E type1, type2 \in
            [shape : {"scalar"}, subtype : {"float", "int", "bool"}, cols : {1}, rows : {1}]
            \cup [shape : {"vector"}, subtype : {"float", "int", "bool"}, cols : {2, 3},
                  rows : {1}]
            \cup {[shape |-> "matrix", subtype |-> "float", cols |-> d[1], rows |-> d[2]] :
                    d \in {<<2, 2>>, <<2, 3>>, <<3, 2>>}} :
         InitGenerator(_opcodes, <<Value(1, type1), Value(2, type2)>>)

NextBinop ==
    \/ Do_co_binop
    \/ Do_co_dup_top
    \/ Finish

SpecBinop == InitBinop /\ [][NextBinop]_vars

(***************************************************************************)
(* Properties of the binary operators                                      *)
(***************************************************************************)
\* the primitive of the row of the binary-operator table for the operand
\* types and the op, "none" if no row matches; the row scalar,vec is taken
\* for both orders and the logical row for bool vectors of one type too
TableRow(type1, type2, op) ==
    LET both(shape) == type1.shape = shape /\ type2.shape = shape
        float == type1.subtype = "float" /\ type2.subtype = "float"
    IN IF type1.subtype # type2.subtype THEN "none"
       ELSE IF type1 = type2 /\ type1.shape \in {"scalar", "vector"}
       THEN IF float /\ op \in {"add", "sub", "mul", "div"}
            THEN [add |-> "OpFAdd", sub |-> "OpFSub", mul |-> "OpFMul", div |-> "OpFDiv"][op]
            ELSE IF type1.subtype = "int" /\ op \in {"add", "sub", "mul"}
            THEN [add |-> "OpIAdd", sub |-> "OpISub", mul |-> "OpIMul"][op]
            ELSE IF type1.subtype = "bool" /\ op \in {"and", "or"}
            THEN [and |-> "OpLogicalAnd", or |-> "OpLogicalOr"][op]
            ELSE "none"
       ELSE IF {type1.shape, type2.shape} = {"scalar", "vector"} /\ float
       THEN IF op = "mul" THEN "OpVectorTimesScalar"
            ELSE IF op \in {"add", "sub", "div"}
            THEN [add |-> "OpFAdd", sub |-> "OpFSub", div |-> "OpFDiv"][op]
            ELSE "none"
       ELSE IF op # "mul" THEN "none"
       ELSE IF both("matrix") /\ type1.cols = type2.rows THEN "OpMatrixTimesMatrix"
       ELSE IF type1.shape = "matrix" /\ type2.shape = "scalar" THEN "OpMatrixTimesScalar"
       ELSE IF type1.shape = "matrix" /\ type2.shape = "vector" /\ type2.cols = type1.cols
       THEN "OpMatrixTimesVector"
       ELSE IF type1.shape = "vector" /\ type2.shape = "matrix" /\ type1.cols = type2.rows
       THEN "OpVectorTimesMatrix"
       ELSE "none"

\* the step is a co_binop on two operands and does as the table says: it
\* emits the primitive of the row, or raises ShaderError if there is none
FollowsTable ==
    LET row == TableRow(_stack[Len(_stack) - 1].type, _stack[Len(_stack)].type,
                        _opcodes[ip].args[1].p)
    IN IF row = "none" THEN result' = "ShaderError"
       ELSE /\ result' = "running"
            /\ Len(functions') > Len(functions)
            /\ functions'[Len(functions')].opcode = row

\* C6: co_binop emits the primitive of the matching row of the table, or
\* raises ShaderError for a combination that is in no row, and never
\* another exception
C6_BinopFollowsTable ==
    [][Dispatches("co_binop") => FollowsTable]_vars

\* ... which holds of every step of co_binop that does not raise KeyError
C6_ExceptKeyError ==
    [][(Dispatches("co_binop") /\ result' # "KeyError") => FollowsTable]_vars

\* two ints were divided, and the compilation ended with a KeyError
C6_Witness ==
    /\ mode = "binop"
    /\ pc = "done"
    /\ result = "KeyError"
    /\ LastOp = Op1("co_binop", Str("div"))
    /\ functions = <<>>
    /\ next_id = 4

(***************************************************************************)
(* Short-circuit operators in value position                               *)
(***************************************************************************)
\* C11: at a JUMP_IF_FALSE_OR_POP or JUMP_IF_TRUE_OR_POP the conversion ends
\* with ShaderError, having read the opcode only and emitted no op, and
\* nothing is converted after an exception
C11_ShortCircuitValueRejected ==
    [][/\ pc # "done"
       /\ (/\ Converting
           /\ converter.co.code[AtInstr].op \in {"JUMP_IF_FALSE_OR_POP", "JUMP_IF_TRUE_OR_POP"})
          => /\ result' = "ShaderError"
             /\ pc' = "done"
             /\ _opcodes' = _opcodes
             /\ converter'._pointer = converter._pointer + 1]_vars

\* `x = x and n` in the body of a statement was rejected, after the ops
\* of the statements before it were emitted
C11_Witness ==
    /\ mode = "frontend"
    /\ pc = "done"
    /\ result = "ShaderError"
    /\ converter.co.code[(converter._pointer - 1) \div 2 + 1].op = "JUMP_IF_FALSE_OR_POP"
    /\ \E i \in DOMAIN _opcodes : _opcodes[i].op \in BranchOps

(***************************************************************************)
(* Early returns                                                           *)
(***************************************************************************)
\* the RETURN_VALUE instructions of the code before its last instruction
EarlyReturns(code) == {k \in 1..(Len(code) - 1) : code[k].op = "RETURN_VALUE"}
\* the step at a RETURN_VALUE appends one co_return, or nothing at the end
ReturnStep ==
    _opcodes' = IF AtInstr \in EarlyReturns(converter.co.code)
                THEN Append(_opcodes, Op0("co_return")) ELSE _opcodes
\* the NSB of a converted function has one co_return per early return
ReturnsInNsb ==
    Converted =>
        Cardinality({i \in DOMAIN _opcodes : _opcodes[i] = Op0("co_return")})
            = Cardinality(EarlyReturns(converter.co.code))

RECURSIVE Exec(_, _)
Exec(g, ops) ==
    IF ops = <<>> \/ g.result # "running" THEN g
    ELSE LET op == Head(ops)
         IN Exec(IF op.op = "co_load_constant" THEN co_load_constant(g, op.args[1])
                 ELSE IF op.op = "co_rot_two" THEN co_rot_two(g)
                 ELSE IF op.op = "co_store_name" THEN co_store_name(g, op.args[1])
                 ELSE IF op.op = "co_load_name" THEN co_load_name(g, op.args[1])
                 ELSE Raise(g, "RuntimeError"),
                 Tail(ops))

\* the ops at the end of `ops` that push constants or turn the stack
RECURSIVE StackOpsAtEnd(_)
StackOpsAtEnd(ops) ==
    IF ops # <<>> /\ ops[Len(ops)].op \in {"co_load_constant", "co_rot_two"}
    THEN Append(StackOpsAtEnd(SubSeq(ops, 1, Len(ops) - 1)), ops[Len(ops)])
    ELSE <<>>

\* the constant a value on the stack of g was loaded from
ConstantOf(g, ob) == CHOOSE c \in DOMAIN g._constants : g._constants[c] = ob.id

\* the arguments of the call of range at instruction k of the code
RangeArgs(code, k) == [j \in 1..code[k].arg |-> co_consts[code[k - code[k].arg + j - 1].arg + 1]]
\* start, stop and step as Python's range has them
RangeOf(args) ==
    IF Len(args) = 1 THEN <<Tok("int", 0), args[1], Tok("int", 1)>>
    ELSE IF Len(args) = 2 THEN <<args[1], args[2], Tok("int", 1)>>
    ELSE args

\* the step of the front end at the FOR_ITER of a loop over a call of range
\* with 1 to 3 constant arguments
AtForOverRange ==
    /\ Converting
    /\ converter.co.code[AtInstr].op = "FOR_ITER"
    /\ AtInstr > 2
    /\ GoodRangeCallAt(converter.co.code, AtInstr - 2)

\* C13: the ops of the arguments and of the call of range, then the five
\* ops _start_loop emits first, run on a stack of any depth d, bind
\* <iter>-start, <iter>-stop and <iter>-step to the start, stop and step of
\* the range and <iter> to the start, and leave d values on the stack
C13_RangeSlotsBound ==
    [][AtForOverRange =>
        /\ result' = "running"
        /\ \A d \in 0..2 :
             LET i == converter.co.code[AtInstr + 1].arg
                 range == RangeOf(RangeArgs(converter.co.code, AtInstr - 2))
                 before == [j \in 1..d |-> Value(100 + j, Scalar("float"))]
                 g == Exec([Self EXCEPT !._stack = before],
                           StackOpsAtEnd(_opcodes)
                           \o SubSeq(_opcodes', Len(_opcodes) + 1, Len(_opcodes) + 5))
                 bound == [p \in {"name-start", "name-stop", "name-step", "name"} |->
                             ConstantOf(g, g._name_ids[Tok(p, i)])]
             IN /\ g.result = "running"
                /\ {Tok(p, i) : p \in DOMAIN bound} \subseteq DOMAIN g._name_ids
                /\ <<bound["name-start"], bound["name-stop"], bound["name-step"]>> = range
                /\ bound["name"] = range[1]
                /\ g._stack = before]_vars

\* the scaffolding of `for i in range(2):` was emitted, with the rot_two
\* that puts the start under the stop
C13_Witness ==
    /\ mode = "frontend"
    /\ pc = "convert"
    /\ \E k \in DOMAIN _opcodes :
         /\ k > 4
         /\ _opcodes[k] = Op1("co_store_name", Tok("name-step", 1))
         /\ _opcodes[k - 2] = Op0("co_rot_two")
         /\ _opcodes[k - 4] = Op1("co_load_constant", Tok("int", 2))
         /\ k + 4 <= Len(_opcodes)
         /\ _opcodes[k + 4] = Op1("co_store_name", Tok("name", 1))

(***************************************************************************)
(* Calls: a vector type called with the values to pack, and the functions  *)
(* of a texture.  A vector type and its arguments are on the stack when    *)
(* the dispatch loop starts at the co_call; the textures are declared and  *)
(* loaded by the NSB: texture.0 of sample type f32 or i32, texture.1 of    *)
(* f32 and the sampler sampler.2.                                          *)
(***************************************************************************)
\* values a vector is packed from, and texture calls of an NSB
MaxPackArgs == 3
MaxCalls == 2

Do_co_call ==
    /\ Generating
    /\ \E op \in NextOps : op.op = "co_call" /\ Dispatch(op, co_call(Self, op.args[1].n))

\* tex.read(c), tex.write(c, texture.0.read(0)) and tex.sample(sampler.2, c)
\* for the texture tex and the constant c, as an expression statement
TextureCall(f, tex, c) ==
    LET read(t, x) == <<Op1("co_load_name", Str("texture.read")), Op1("co_load_name", t),
                        Op1("co_load_constant", x), Op1("co_call", Tok("int", 2))>>
    IN (IF f = "read" THEN read(tex, c)
        ELSE IF f = "write"
        THEN <<Op1("co_load_name", Str("texture.write")), Op1("co_load_name", tex),
               Op1("co_load_constant", c)>>
             \o read(Tok("texture", 0), Tok("int", 0))
             \o <<Op1("co_call", Tok("int", 3))>>
        ELSE <<Op1("co_load_name", Str("texture.sample")), Op1("co_load_name", tex),
               Op1("co_load_name", Tok("sampler", 2)), Op1("co_load_constant", c),
               Op1("co_call", Tok("int", 3))>>)
       \o <<Op0("co_pop_top")>>

\* the scalar types and the vector types of two to four elements
ConvertibleTypes ==
    {Scalar(t) : t \in ElementTypes} \cup {Vector(n, t) : n \in 2..4, t \in ElementTypes}

InitCall ==
    /\ mode = "call"
    /\ pc = "generate"
    /\ \/ \E vector_type \in {Vector(n, t) : n \in 2..4, t \in {"float", "int", "bool"}},
             k \in 2..MaxPackArgs :
          \E types \in [1..k -> {Scalar(t) : t \in {"float", "int", "bool"}}
                                \cup {Vector(n, t) : n \in 2..3, t \in {"float", "int", "bool"}}] :
            /\ _opcodes = <<Op1("co_call", Tok("int", k))>>
            /\ InitGenerator(_opcodes, <<[kind |-> "type", id |-> 0, type |-> vector_type]>>
                                       \o [i \in 1..k |-> Value(i + 1, types[i])])
       \* a call of a scalar or vector type with one argument
       \/ \E out_type \in ConvertibleTypes, arg_type \in ConvertibleTypes :
            /\ _opcodes = <<Op1("co_call", Tok("int", 1))>>
            /\ InitGenerator(_opcodes, <<[kind |-> "type", id |-> 0, type |-> out_type],
                                         Value(2, arg_type)>>)
       \/ \E typename \in {Str("2d f32"), Str("2d i32")}, k \in 1..MaxCalls :
          \E calls \in [1..k -> {"read", "write", "sample"} \X {0, 1} \X {"int", "float"}] :
            /\ _opcodes =
                 [i \in 1..3 |->
                    [op |-> "co_resource",
                     args |-> <<Tok(IF i = 3 THEN "sampler" ELSE "texture", i - 1),
                                Str(IF i = 3 THEN "sampler" ELSE "texture"),
                                [t |-> "int", v |-> <<i - 1>>],
                                IF i = 1 THEN typename ELSE Str("2d f32")>>]]
                 \o Concat([i \in 1..k |-> TextureCall(calls[i][1], Tok("texture", calls[i][2]),
                                                       Tok(calls[i][3], 0))])
            /\ InitGenerator(_opcodes, <<>>)

NextCall ==
    \/ Do_co_resource
    \/ Do_co_load_name
    \/ Do_co_load_constant
    \/ Do_co_call
    \/ Do_co_pop_top
    \/ Finish

SpecCall == InitCall /\ [][NextCall]_vars

(***************************************************************************)
(* C14: packing a vector from several arguments                            *)
(***************************************************************************)
\* the step of co_call that packs a vector from two or more values
AtPacking ==
    /\ mode = "call"
    /\ Generating
    /\ ip <= Len(_opcodes)
    /\ _opcodes[ip].op = "co_call"
    /\ _stack # <<>>
    /\ _stack[1].kind = "type"
    /\ _opcodes[ip].args[1].n = Len(_stack) - 1
    /\ Len(_stack) >= 3

\* the components of the arguments in argument order: a scalar is one
\* component (i = -1), a vector one component per element i
Components(args) ==
    Concat([k \in DOMAIN args |->
              IF args[k].type.shape = "scalar"
              THEN <<[arg |-> args[k].id, i |-> -1, subtype |-> args[k].type.subtype]>>
              ELSE [i \in 1..args[k].type.cols |->
                      [arg |-> args[k].id, i |-> i - 1, subtype |-> args[k].type.subtype]]])

Conversions == {"OpFConvert", "OpConvertSToF", "OpConvertFToS", "OpSConvert",
                "OpSelect", "OpFOrdNotEqual", "OpINotEqual"}

\* C14: a Vector(n, t) packed from several arguments whose components
\* count n: exactly one OpCompositeConstruct is emitted, the last
\* instruction, with one constituent per component in argument order; the
\* constituent of a component of type t is the component itself, that of
\* another component the result of the one conversion to t emitted for it,
\* and no other conversion is emitted; the vector is pushed.  When the
\* components do not count n: ShaderError and no OpCompositeConstruct.
C14_PackingConstructsOnce ==
    [][AtPacking =>
        LET vector_type == _stack[1].type
            t == Scalar(vector_type.subtype)
            comps == Components(SubSeq(_stack, 2, Len(_stack)))
            emitted == SubSeq(functions', Len(functions) + 1, Len(functions'))
            Of(opcodes) == {k \in DOMAIN emitted : emitted[k].opcode \in opcodes}
            construct == emitted[Len(emitted)]
            \* the id of component j before its conversion
            Source(j) ==
                IF comps[j].i = -1 THEN {Id(comps[j].arg)}
                ELSE {emitted[k].words[2] : k \in
                        {k \in Of({"OpCompositeExtract"}) :
                             /\ emitted[k].words[1] = TypeId(Scalar(comps[j].subtype))
                             /\ SubSeq(emitted[k].words, 3, 4)
                                  = <<Id(comps[j].arg), Lit(comps[j].i)>>}}
            ConversionOf(j) ==
                {k \in Of(Conversions) :
                     /\ emitted[k].words[1] = TypeId(t)
                     /\ emitted[k].words[2] = construct.words[j + 2]
                     /\ {emitted[k].words[3]} = Source(j)}
        IN IF Len(comps) = vector_type.cols
           THEN /\ result' = "running"
                /\ Cardinality(Of({"OpCompositeConstruct"})) = 1
                /\ construct.opcode = "OpCompositeConstruct"
                /\ Len(construct.words) = vector_type.cols + 2
                /\ construct.words[1] = TypeId(vector_type)
                /\ _stack' = <<Value(construct.words[2].n, vector_type)>>
                /\ \A j \in DOMAIN comps :
                     /\ Cardinality(Source(j)) = 1
                     /\ IF comps[j].subtype = vector_type.subtype
                        THEN {construct.words[j + 2]} = Source(j)
                        ELSE Cardinality(ConversionOf(j)) = 1
                /\ Cardinality(Of(Conversions))
                     = Cardinality({j \in DOMAIN comps : comps[j].subtype # vector_type.subtype})
           ELSE /\ result' = "ShaderError"
                /\ \A k \in DOMAIN functions' : functions'[k].opcode # "OpCompositeConstruct"]_vars

\* vec3(float, ivec2) was packed: two extractions, two conversions, one
\* construction
C14_Witness ==
    /\ mode = "call"
    /\ result = "running"
    /\ ip = 2
    /\ Len(_stack) = 1
    /\ _stack[1] = Value(_stack[1].id, Vector(3, "float"))
    /\ [k \in DOMAIN functions |-> functions[k].opcode]
         = <<"OpCompositeExtract", "OpConvertSToF", "OpCompositeExtract", "OpConvertSToF",
             "OpCompositeConstruct">>

(***************************************************************************)
(* C15: the Sampled and Depth words of the image type of a texture         *)
(***************************************************************************)
\* the op that the next step dispatches
AtOp(name) ==
    /\ mode = "call"
    /\ Generating
    /\ ip <= Len(_opcodes)
    /\ _opcodes[ip].op = name

\* the function and the texture of the call that the next step dispatches
CalledFunction == _stack[Len(_stack) - _opcodes[ip].args[1].n]
CalledTexture == _stack[Len(_stack) - _opcodes[ip].args[1].n + 1]

\* the step is a call of one of the functions fs on a texture
AtTextureCall(fs) ==
    /\ AtOp("co_call")
    /\ Len(_stack) > _opcodes[ip].args[1].n
    /\ CalledFunction.kind = "name"
    /\ CalledFunction.type \in fs
    /\ CalledTexture.kind = "access"
    /\ "sampled" \in DOMAIN CalledTexture

\* the words Sampled and Depth of a texture
Words(ph, tex) == <<ph[tex.sampled], ph[tex.depth]>>

\* C15: the declaration of a texture makes two new words, Sampled = 0 and
\* Depth = 2; a read or a write of a texture sets its words to (2, 0), a
\* sample to (1, 0); every step leaves all other words as they are, so that
\* the words of a texture are (0, 2) until its first use and those of its
\* most recent use from then on, up to the end of the generation.
C15_TextureWordsFollowUse ==
    [][LET Declared ==
              /\ AtOp("co_resource")
              /\ _opcodes[ip].args[2] = Str("texture")
              /\ result' = "running"
           Used == AtTextureCall(TextureFunctions)
       IN /\ Declared =>
               LET tex == iodicts'["texture"][_opcodes[ip].args[1]]
               IN /\ placeholders' = placeholders \o <<0, 2>>
                  /\ {tex.sampled, tex.depth} = DOMAIN placeholders' \ DOMAIN placeholders
                  /\ Words(placeholders', tex) = <<0, 2>>
          /\ Used =>
               /\ Words(placeholders', CalledTexture)
                    = IF CalledFunction.type = "texture.sample" THEN <<1, 0>> ELSE <<2, 0>>
               /\ \A k \in DOMAIN placeholders \ {CalledTexture.sampled, CalledTexture.depth} :
                    placeholders'[k] = placeholders[k]
               /\ DOMAIN placeholders' = DOMAIN placeholders
          /\ ~Declared /\ ~Used /\ mode = "call" => placeholders' = placeholders]_vars

\* texture 0 was read and then sampled, texture 1 is unused: at the end of
\* the generation the words are those of the sample and (0, 2)
C15_Witness ==
    /\ mode = "call"
    /\ pc = "done"
    /\ result = "ok"
    /\ \E k \in DOMAIN functions : functions[k].opcode = "OpImageRead"
    /\ functions[Len(functions)].opcode = "OpImageSampleExplicitLod"
    /\ {Tok("texture", 0), Tok("texture", 1)} \subseteq DOMAIN iodicts["texture"]
    /\ Words(placeholders, iodicts["texture"][Tok("texture", 0)]) = <<1, 0>>
    /\ Words(placeholders, iodicts["texture"][Tok("texture", 1)]) = <<0, 2>>

(***************************************************************************)
(* Nested conditionals, as the front end lays them out.  A statement is an *)
(* `if` with two arms; an arm is a nested `if`, a block that ends with a   *)
(* jump ("jump"), or nothing ("direct": the conditional branch itself      *)
(* goes to the place where the arms meet, as for an `if` without `else`).  *)
(* The arms of an `if` meet at a label of its own, followed by a jump      *)
(* (own), or at the place where the arms of the enclosing `if` meet.       *)
(***************************************************************************)
MaxIfs == 3

RECURSIVE Arms(_)
Arms(ifs) ==
    IF ifs = 0 THEN {[t |-> "jump"], [t |-> "direct"]}
    ELSE UNION {{[t |-> "if", a |-> a, b |-> b, own |-> own] :
                    a \in Arms(i), b \in Arms(ifs - 1 - i), own \in BOOLEAN} :
                i \in 0..(ifs - 1)}

\* The NSB of the arm `arm` at the place p of the tree (1 is the root, 2p
\* and 2p + 1 are the arms of p), whose control goes on at the label `end`
RECURSIVE Nested(_, _, _)
Nested(arm, end, p) ==
    IF arm.t = "jump" THEN <<Op1("co_branch", end)>>
    ELSE IF arm.t = "direct" THEN <<>>
    ELSE LET meet == IF arm.own THEN Lab(3 * p + 2) ELSE end
             Target(x, l) == IF x.t = "direct" THEN meet ELSE l
             Block(x, l, q) ==
                 IF x.t = "direct" THEN <<>> ELSE <<Op1("co_label", l)>> \o Nested(x, meet, q)
         IN <<Op1("co_load_constant", TrueConst),
              Op2("co_branch_conditional", Target(arm.a, Lab(3 * p)),
                                           Target(arm.b, Lab(3 * p + 1)))>>
            \o Block(arm.a, Lab(3 * p), 2 * p)
            \o Block(arm.b, Lab(3 * p + 1), 2 * p + 1)
            \o (IF arm.own THEN <<Op1("co_label", meet), Op1("co_branch", end)>> ELSE <<>>)

InitMerge ==
    /\ mode = "merge"
    /\ pc = "generate"
    /\ \E ifs \in 1..MaxIfs :
         \E arm \in Arms(ifs) :
            _opcodes = Nested(arm, Lab(0), 1) \o <<Op1("co_label", Lab(0)), Op0("co_func_end")>>
    /\ InitGenerator(_opcodes, <<>>)

NextMerge ==
    \/ Do_co_label
    \/ Do_co_branch
    \/ Do_co_branch_conditional
    \/ Do_co_load_constant
    \/ Do_co_func_end
    \/ Finish

SpecMerge == InitMerge /\ [][NextMerge]_vars

(***************************************************************************)
(* C16, C17: the merge blocks of the conditionals                          *)
(***************************************************************************)
\* The OpSelectionMerge instructions in the order of their emission.  The
\* j-th is the one of the j-th co_branch_conditional, whose two child
\* branches are the nodes 2j and 2j + 1 of the branch tree; its merge
\* placeholder holds 0 until the conditional is merged at a co_label.
SelectionMerges == SelectSeq(functions, LAMBDA ins : ins.opcode = "OpSelectionMerge")
MergeBlock(j) == placeholders[SelectionMerges[j].words[1].n]
Merged(j) == MergeBlock(j) # 0
LastTarget(child) == placeholders[branches[child].branch_label_placeholder]

\* C16: in every state, for every conditional that has been merged, the
\* placeholder of the last jump of each of its two child branches holds the
\* id that the merge placeholder of its OpSelectionMerge holds, and that id
\* is the one of a block that was emitted
C16_ArmsJumpToMergeBlock ==
    \A j \in DOMAIN SelectionMerges :
        Merged(j) =>
            /\ 2 * j + 1 <= Len(branches)
            /\ \A child \in {2 * j, 2 * j + 1} :
                 /\ branches[child].depth = branches[branches[child].parent].depth + 1
                 /\ LastTarget(child) = MergeBlock(j)
            /\ \E k \in DOMAIN functions :
                 functions[k] = Ins("OpLabel", <<Id(MergeBlock(j))>>)

\* a conditional in an arm of a conditional, both merged at one co_label,
\* the inner one with a hop block; the second arm of the inner one is empty, so that its last
\* jump is the one of the OpBranchConditional
C16_Witness ==
    /\ mode = "merge"
    /\ Len(SelectionMerges) = 2
    /\ Merged(1) /\ Merged(2)
    /\ MergeBlock(1) # MergeBlock(2)
    /\ branches[5].depth = 2
    /\ functions[Len(functions)].opcode = "OpLabel"
    /\ functions[Len(functions) - 1] = Ins("OpBranch", <<Ph(branches[2].branch_label_placeholder)>>)
    /\ \E k \in DOMAIN functions :
         /\ functions[k].opcode = "OpBranchConditional"
         /\ Ph(branches[5].branch_label_placeholder) \in Range(functions[k].words)

\* The conditionals that the step merges, and the depth of the two arms of
\* a conditional
MergedNow == {j \in DOMAIN SelectionMerges :
                ~Merged(j) /\ placeholders'[SelectionMerges[j].words[1].n] # 0}
ArmDepth(j) == branches[2 * j].depth
\* the conditional in whose arm the conditional j lies (0 for one at the root)
Enclosing(j) == branches[2 * j].parent \div 2

\* A step of co_label(L) that merges k >= 1 conditionals: it emits k - 1
\* hop blocks, an OpLabel with a fresh id and an OpBranch, and then OpLabel
\* L; the merge blocks of the k conditionals are these k blocks, one each,
\* a deeper conditional before a less deep one; the OpBranch of the i-th
\* hop block goes to the block Goes(i, j, blocks), where j is the conditional
\* merged at this hop block and blocks the ids of the k blocks
MergeChain(Goes(_, _, _)) ==
    (Generating /\ Dispatches("co_label") /\ result' = "running" /\ MergedNow # {}) =>
        LET k == Cardinality(MergedNow)
            emitted == SubSeq(functions', Len(functions) + 1, Len(functions'))
            Block(i) == emitted[2 * i - 1].words[1].n
            At(i) == {j \in MergedNow : placeholders'[SelectionMerges[j].words[1].n] = Block(i)}
        IN /\ Len(emitted) = 2 * k - 1
           /\ \A i \in 1..k : emitted[2 * i - 1].opcode = "OpLabel"
           /\ Block(k) = _labels'[LabelKey(_opcodes'[ip].args[1])]
           /\ \A i \in 1..k : Cardinality(At(i)) = 1
           /\ \A i1, i2 \in 1..k :
                i1 < i2 => \A j1 \in At(i1), j2 \in At(i2) :
                              /\ Block(i1) # Block(i2)
                              /\ ArmDepth(j1) >= ArmDepth(j2)
           /\ \A i \in 1..(k - 1) :
                /\ Block(i) >= next_id
                /\ emitted[2 * i].opcode = "OpBranch"
                /\ \A j \in At(i) :
                     placeholders'[emitted[2 * i].words[1].n]
                       = Goes(i, j, [i2 \in 1..k |-> Block(i2)])

\* no two OpSelectionMerge instructions of merged conditionals declare the
\* same merge block
OneMergePerBlock ==
    \A j1, j2 \in DOMAIN SelectionMerges :
        (j1 # j2 /\ Merged(j1) /\ Merged(j2)) => MergeBlock(j1) # MergeBlock(j2)

\* C17: the conditionals merged at one co_label(L) are merged deepest
\* first, each at a block of its own: the first k - 1 at fresh hop blocks,
\* OpLabel hop and an OpBranch to the next block of the chain, emitted
\* before OpLabel L, and the last at L; no two OpSelectionMerge
\* instructions declare the same merge block
C17_HopsGoToNextBlock ==
    /\ [][MergeChain(LAMBDA i, j, blocks : blocks[i + 1])]_vars
    /\ []OneMergePerBlock

\* C17 with the jump of a hop block as co_label leaves it: the OpBranch of
\* the hop block goes to the merge block of the conditional in whose arm
\* the merged conditional lies, which is a later block of the chain
C17_HopsGoToEnclosingMerge ==
    /\ [][MergeChain(LAMBDA i, j, blocks :
                        CHOOSE b \in {blocks[i2] : i2 \in (i + 1)..Len(blocks)} :
                            b = placeholders'[SelectionMerges[Enclosing(j)].words[1].n])]_vars
    /\ []OneMergePerBlock

\* three conditionals were merged at one label: an `if` whose two arms are
\* an `if` each; the hop block of the first goes to the block of the label,
\* not to the hop block of the second
C17_Witness ==
    /\ mode = "merge"
    /\ Len(SelectionMerges) = 3
    /\ Merged(1) /\ Merged(2) /\ Merged(3)
    /\ Len(functions) >= 5
    /\ Opcodes(SubSeq(functions, Len(functions) - 4, Len(functions)))
         = <<"OpLabel", "OpBranch", "OpLabel", "OpBranch", "OpLabel">>
    /\ MergeBlock(1) = functions[Len(functions)].words[1].n
    /\ placeholders[functions[Len(functions) - 3].words[1].n] = MergeBlock(1)
    /\ placeholders[functions[Len(functions) - 1].words[1].n] = MergeBlock(1)

(***************************************************************************)
(* C18: the names that the pre-pass marks for a function variable          *)
(***************************************************************************)
\* the block of the op at i: the label of the last co_label before it
BlockAt(ops, i) ==
    LET labels == {k \in 1..(i - 1) : ops[k].op = "co_label"}
    IN IF labels = {} THEN EmptyLabel
       ELSE ops[CHOOSE k \in labels : \A k2 \in labels : k2 <= k].args[1]

\* the blocks that store the name before the op at `before`
StoringBlocks(ops, name, before) ==
    {BlockAt(ops, k) : k \in {k \in 1..(before - 1) : ops[k] = Op1("co_store_name", name)}}

\* the name is loaded in a block that does not store it, while two or more
\* blocks store it: anywhere in the op list, or before that load
NeedsVariable(ops, name, anywhere) ==
    \E k \in DOMAIN ops :
        /\ ops[k] = Op1("co_load_name", name)
        /\ LET blocks == StoringBlocks(ops, name, IF anywhere THEN Len(ops) + 1 ELSE k)
           IN Cardinality(blocks) >= 2 /\ BlockAt(ops, k) \notin blocks

MarkedIn(sets, name) == \E label \in DOMAIN sets : name \in sets[label]

\* When the dispatch loop starts, a name is in a need-load set, and in
\* need-save sets, iff it needs a variable; the load of a name that does
\* not need one emits nothing and pushes the last id stored under the name
MarksAndServes(anywhere) ==
    /\ (mode = "program" /\ pc = "generate" /\ ip = 1) =>
          \A name \in Names :
              /\ MarkedIn(_need_name_var_load, name) <=> NeedsVariable(_opcodes, name, anywhere)
              /\ MarkedIn(_need_name_var_save, name) <=> MarkedIn(_need_name_var_load, name)
    /\ (mode = "program" /\ Generating /\ ip <= Len(_opcodes)
          /\ _opcodes[ip].op = "co_load_name"
          /\ _opcodes[ip].args[1] \in DOMAIN _name_ids
          /\ ~NeedsVariable(_opcodes, _opcodes[ip].args[1], anywhere)) =>
          /\ ~MarkedIn(_need_name_var_load, _opcodes[ip].args[1])
          /\ _name_ids[_opcodes[ip].args[1]].id < next_id

\* C18: the pre-pass marks a name iff two or more blocks store it and a
\* block that is none of them loads it, wherever the stores stand in the
\* op list; a load of another name is served from its last SSA id
C18_MarkedWhereverStored ==
    /\ []MarksAndServes(TRUE)
    /\ [][(mode = "program" /\ Generating /\ Dispatches("co_load_name")
             /\ _opcodes[ip].args[1] \in DOMAIN _name_ids
             /\ ~NeedsVariable(_opcodes, _opcodes[ip].args[1], TRUE))
            => /\ result' = "running"
               /\ functions' = functions
               /\ _stack' = Append(_stack, _name_ids[_opcodes[ip].args[1]])]_vars

\* C18 for the stores that stand before the load in the op list
C18_MarkedWhenStoredBefore ==
    /\ []MarksAndServes(FALSE)
    /\ [][(mode = "program" /\ Generating /\ Dispatches("co_load_name")
             /\ _opcodes[ip].args[1] \in DOMAIN _name_ids
             /\ ~NeedsVariable(_opcodes, _opcodes[ip].args[1], FALSE))
            => /\ result' = "running"
               /\ functions' = functions
               /\ _stack' = Append(_stack, _name_ids[_opcodes[ip].args[1]])]_vars

\* x is stored in two blocks and then loaded in a third one, from its
\* variable; y is stored in two blocks, one before and one after the block
\* that loads it, and has no variable
C18_Witness ==
    /\ mode = "program"
    /\ result = "ok"
    /\ NeedsVariable(_opcodes, Str("x"), FALSE)
    /\ NeedsVariable(_opcodes, Str("y"), TRUE)
    /\ ~NeedsVariable(_opcodes, Str("y"), FALSE)
    /\ Cardinality({k \in DOMAIN functions : functions[k].opcode = "OpLoad"}) = 1
    /\ DOMAIN _name_variables = {Str("x")}

(***************************************************************************)
(* The collapse of empty blocks on op lists.  An op list is a sequence of  *)
(* blocks, as the front end emits them: the co_label of the block, a body, *)
(* and the branch that ends the block.  The k-th block has the label Lk; a *)
(* branch goes to any label.  The pass then runs on the list.              *)
(***************************************************************************)
MaxBlocks == 3

NumBlocks == Len(SelectSeq(_opcodes, LAMBDA op : op.op = "co_label"))

\* the ops that end a block
Terminators ==
    {Op1("co_branch", Lab(a)) : a \in 1..MaxBlocks}
    \cup {Op2("co_branch_conditional", Lab(a), Lab(b)) :
            a \in 1..MaxBlocks, b \in 1..MaxBlocks}
    \cup {Op3("co_branch_loop", Lab(a), Lab(b), Lab(c)) :
            a \in 1..MaxBlocks, b \in 1..MaxBlocks, c \in 1..MaxBlocks}

AppendBlock ==
    /\ mode = "blocks"
    /\ NumBlocks < MaxBlocks
    /\ \E body \in {<<>>, <<Op0("co_pop_top")>>}, term \in Terminators :
         /\ body # <<>> => term.op = "co_branch"
         /\ term.op = "co_branch_conditional" => term.args[1].n < term.args[2].n
         /\ term.op = "co_branch_loop" =>
              term.args[1].n < term.args[2].n /\ term.args[2].n < term.args[3].n
         /\ AppendOps(<<Op1("co_label", Lab(NumBlocks + 1))>> \o body \o <<term>>)

FixEmptyBlocks ==
    /\ mode = "blocks"
    /\ pc = "build"
    /\ _opcodes # <<>>
    /\ \E r \in {_fix_empty_blocks(_opcodes, converter._protected_labels)} :
         /\ _opcodes' = r.ops
         /\ result' = r.result
    /\ pc' = "fixed"
    /\ UNCHANGED <<mode, ip, converter, bevars>>

InitEmpty ==
    /\ mode = "blocks"
    /\ pc = "build"
    /\ _opcodes = <<>>
    /\ converter \in {[_protected_labels |-> protected] : protected \in {{}, {Lab(2)}}}
    /\ InitGenerator(<<>>, <<>>)

NextEmpty == AppendBlock \/ FixEmptyBlocks

SpecEmpty == InitEmpty /\ [][NextEmpty]_vars

(***************************************************************************)
(* C19: the op list after _fix_empty_blocks                                *)
(***************************************************************************)
\* the labels that an op names
LabelsOf(op) ==
    IF op.op \in {"co_label", "co_branch", "co_branch_conditional", "co_branch_loop"}
    THEN Range(op.args) ELSE {}

\* the op at i is the co_label of a block that is nothing but a co_branch
EmptyBlockAt(ops, i) ==
    /\ i < Len(ops)
    /\ ops[i].op = "co_label"
    /\ ops[i + 1].op = "co_branch"

\* the empty blocks of the list whose label is not protected, as a function
\* from the label to the target of the co_branch
EmptyBlocks(ops, protected) ==
    LET at == {i \in DOMAIN ops : EmptyBlockAt(ops, i) /\ ops[i].args[1] \notin protected}
    IN [label \in {ops[i].args[1] : i \in at} |->
          ops[(CHOOSE i \in at : ops[i].args[1] = label) + 1].args[1]]

\* the label reached from `label` through the empty blocks
RECURSIVE FinalTarget(_, _, _)
FinalTarget(empty, label, steps) ==
    IF label \in DOMAIN empty /\ steps > 0
    THEN FinalTarget(empty, empty[label], steps - 1)
    ELSE label

\* C19: when _fix_empty_blocks returns, the list has no block that is
\* nothing but co_label(L); co_branch(M) with L not protected; no op names
\* the label of an empty block that was not protected; the list is the old
\* one without these blocks, where every label of such a block is replaced
\* by the label reached from it through these blocks, and every other op and
\* label is as it was; an empty block with a protected label is still there
C19_EmptyBlocksCollapsed ==
    [][(mode = "blocks" /\ pc = "build" /\ pc' = "fixed" /\ result' = "running") =>
        LET protected == converter._protected_labels
            empty == EmptyBlocks(_opcodes, protected)
            Final(label) == FinalTarget(empty, label, Cardinality(DOMAIN empty))
            kept == SelectSeq([i \in DOMAIN _opcodes |-> i],
                              LAMBDA i : ~ \/ /\ EmptyBlockAt(_opcodes, i)
                                              /\ _opcodes[i].args[1] \in DOMAIN empty
                                           \/ /\ i > 1
                                              /\ EmptyBlockAt(_opcodes, i - 1)
                                              /\ _opcodes[i - 1].args[1] \in DOMAIN empty)
        IN /\ \A i \in DOMAIN _opcodes' :
                EmptyBlockAt(_opcodes', i) => _opcodes'[i].args[1] \in protected
           /\ \A i \in DOMAIN _opcodes' : LabelsOf(_opcodes'[i]) \cap DOMAIN empty = {}
           /\ Len(_opcodes') = Len(kept)
           /\ \A k \in DOMAIN kept :
                /\ _opcodes'[k].op = _opcodes[kept[k]].op
                /\ _opcodes'[k].args
                     = [j \in DOMAIN _opcodes[kept[k]].args |->
                          IF LabelsOf(_opcodes[kept[k]]) = {} THEN _opcodes[kept[k]].args[j]
                          ELSE Final(_opcodes[kept[k]].args[j])]
           /\ \A i \in DOMAIN _opcodes :
                (EmptyBlockAt(_opcodes, i) /\ _opcodes[i].args[1] \in protected) =>
                    \E k \in DOMAIN _opcodes' :
                        /\ EmptyBlockAt(_opcodes', k)
                        /\ _opcodes'[k] = _opcodes[i]]_vars

\* three blocks: L1 and L2 are empty and lead to L3, one of them directly
\* or through the other, and L3 ends with a conditional branch to L1 and
\* L2; only L3 is left, and its branch goes to L3 twice
C19_Witness ==
    /\ mode = "blocks"
    /\ pc = "fixed"
    /\ result = "running"
    /\ converter._protected_labels = {}
    /\ _opcodes = <<Op1("co_label", Lab(3)), Op2("co_branch_conditional", Lab(3), Lab(3))>>

(***************************************************************************)
(* The control flow of a pair of conditional branches and of the branch    *)
(* that _fix_or_control_flow makes of it.  A is the value on the stack at  *)
(* the first branch, B the value that the ops of the common block leave on *)
(* the stack at the second one.                                            *)
(***************************************************************************)
\* the target of a conditional branch for the value `cond` of its condition
BranchTarget(op, cond) == IF cond THEN op.args[1] ELSE op.args[2]

\* the block reached by the pair of `block`: the first branch, and the
\* second one when the first one goes to the block that holds it
ReachedByPair(ops, block, A, B) ==
    LET first == BranchTarget(ops[block[1]], A)
    IN IF first = ops[block[2]].args[1] THEN BranchTarget(ops[block[3]], B) ELSE first

\* the ops that ResolveBlock puts in the place of the first branch
ResolvedOps(ops, block) ==
    LET resolved == ResolveBlock(ops, block)
        removed == block[3] - block[2] + 2
    IN SubSeq(resolved, block[1], block[1] + Len(resolved) - Len(ops) + removed - 1)

\* the stack after `op`
StackAfter(op, stack) ==
    LET n == Len(stack)
    IN IF op.op = "co_unary_op" /\ op.args[1] = Str("not")
       THEN [stack EXCEPT ![n] = ~ stack[n]]
       ELSE IF op.op = "co_binary_op" /\ op.args[1] = Str("or")
       THEN Append(SubSeq(stack, 1, n - 2), stack[n - 1] \/ stack[n])
       ELSE IF op.op = "co_binary_op" /\ op.args[1] = Str("and")
       THEN Append(SubSeq(stack, 1, n - 2), stack[n - 1] /\ stack[n])
       ELSE stack

RECURSIVE StackAfterAll(_, _)
StackAfterAll(ops, stack) ==
    IF ops = <<>> THEN stack ELSE StackAfterAll(Tail(ops), StackAfter(Head(ops), stack))

\* the block reached by the branch that ends the resolved ops: the ops
\* before those of the common block work on A, the ops of the common block
\* push B, the ops after them work on both
ReachedByResolved(ops, block, A, B) ==
    LET resolved == ResolvedOps(ops, block)
        selection == PySlice(ops, block[2], block[3] - 1)
        before == IF SubSeq(resolved, 1, Len(selection)) = selection THEN 0 ELSE 1
        after == SubSeq(resolved, before + Len(selection) + 1, Len(resolved) - 1)
        stack == StackAfterAll(after,
                     Append(StackAfterAll(SubSeq(resolved, 1, before), <<A>>), B))
    IN BranchTarget(resolved[Len(resolved)], stack[Len(stack)])

\* the rewrite of the block that _get_block_to_resolve finds in `ops`
\* keeps the control flow, and so does every later one of the pass
RECURSIVE RewritesPreserve(_)
RewritesPreserve(ops) ==
    \A block \in {_get_block_to_resolve(ops)} :
       block # <<>> =>
          /\ \A A, B \in BOOLEAN :
                ReachedByResolved(ops, block, A, B) = ReachedByPair(ops, block, A, B)
          /\ \A resolved \in {ResolveBlock(ops, block)} : RewritesPreserve(resolved)

\* C20: each rewrite of _fix_or_control_flow keeps the control flow: for
\* every truth value of the first condition A and of the second condition
\* B, the rewritten co_branch_conditional, with the not/or/and ops put in,
\* goes to the block that the pair of conditional branches went to
C20_RewritePreservesFlow ==
    [][(/\ mode = "frontend"
        /\ pc = "convert"
        /\ result = "running"
        /\ converter._pointer >= 2 * Len(converter.co.code)
        /\ pc' = "done") =>
        \A r \in {_fix_empty_blocks(converter._opcodes, converter._protected_labels)} :
           r.result = "running" => RewritesPreserve(r.ops)]_vars

\* the conversion has ended on a function with `if x < 1: break` in a for
\* loop and `if x and n:` after it: the pass rewrote the stop criterion of
\* the loop with the break (a `not` before the ops of the block, an `or`
\* after them) and the two branches of the `and` (`and`, then `not`)
C20_Witness ==
    /\ mode = "frontend"
    /\ pc = "done"
    /\ result = "ok"
    /\ \E i \in DOMAIN _opcodes : _opcodes[i] = Op1("co_binary_op", Str("or"))
    /\ \E i \in DOMAIN _opcodes :
          /\ i < Len(_opcodes)
          /\ _opcodes[i] = Op1("co_binary_op", Str("and"))
          /\ _opcodes[i + 1] = Op1("co_unary_op", Str("not"))
    /\ \E i \in DOMAIN _opcodes : _opcodes[i].op = "co_branch_loop"

(***************************************************************************)
(* The loops of the function under conversion, and the ops of a loop in    *)
(* the op list of the converter before the post-passes.                    *)
(***************************************************************************)
\* the loop records of the pre-scan, in the order of their starts
LoopRecords == convert(converter.co)._loops_to_handle

\* the variable that the STORE_FAST after the FOR_ITER of the loop names
IterIndex(loop_info) == Byte(converter.co.code, loop_info.start + 3)

\* what _start_loop emits for a for loop from the branch to the header on
StartOps(loop_info) ==
    LET n == loop_info.idx
        i == IterIndex(loop_info)
    IN <<Op1("co_branch", Tok("Lh", n)),
         Op1("co_label", Tok("Lh", n)),
         Op3("co_branch_loop", Tok("Li", n), Tok("Lc", n), Tok("Lm", n)),
         Op1("co_label", Tok("Li", n)),
         Op1("co_load_name", Tok("name", i)),
         Op1("co_load_name", Tok("name-stop", i)),
         Op1("co_compare", Str("<")),
         Op2("co_branch_conditional", Tok("Lb", n), Tok("Lm", n)),
         Op1("co_label", Tok("Lb", n))>>

\* what _end_loop emits for a for loop
EndOps(loop_info) ==
    LET n == loop_info.idx
        i == IterIndex(loop_info)
    IN <<Op1("co_label", Tok("Lc", n)),
         Op1("co_load_name", Tok("name", i)),
         Op1("co_load_name", Tok("name-step", i)),
         Op1("co_binary_op", Str("add")),
         Op1("co_store_name", Tok("name", i)),
         Op1("co_branch", Tok("Lh", n)),
         Op1("co_label", Tok("Lm", n))>>

\* the places of the op list `ops` where the ops `part` stand in a row
PlacesOf(part, ops) ==
    {k \in 1..(Len(ops) - Len(part) + 1) : SubSeq(ops, k, k + Len(part) - 1) = part}

\* the ops of `ops` that define a label of the loop or are its co_branch_loop
LoopMarks(loop_info, ops) ==
    {k \in DOMAIN ops :
        \/ /\ ops[k].op = "co_label"
           /\ ops[k].args[1] \in {Tok(l, loop_info.idx) : l \in {"Lh", "Li", "Lb", "Lc", "Lm"}}
        \/ /\ ops[k].op = "co_branch_loop"
           /\ \E j \in DOMAIN ops[k].args :
                 ops[k].args[j] \in {Tok(l, loop_info.idx) : l \in {"Li", "Lc", "Lm"}}}

\* the ops of the for loop stand in the order of _start_loop and _end_loop:
\* the start ops in a row, once, the end ops in a row, once and after the
\* start ops, and no other op defines a label of the loop
LoopInOrder(loop_info, ops) ==
    LET starts == PlacesOf(StartOps(loop_info), ops)
        ends == PlacesOf(EndOps(loop_info), ops)
    IN /\ Cardinality(starts) <= 1
       /\ Cardinality(ends) <= 1
       /\ \A m \in ends : \E k \in starts : k + 8 < m
       /\ LoopMarks(loop_info, ops)
            = UNION {{k + 1, k + 2, k + 3, k + 8} : k \in starts}
              \cup UNION {{m, m + 6} : m \in ends}

\* C21: for every for loop, the ops of _start_loop and _end_loop stand in
\* the op list in the order branch(header); label(header); branch_loop(iter,
\* continue, merge); label(iter); load iter; load iter-stop; compare(<);
\* branch_conditional(body, merge); label(body); the body; label(continue);
\* load iter; load iter-step; binary_op(add); store iter; branch(header);
\* label(merge), all labels those of the loop record; and when the
\* conversion reaches the end of the code, a loop that was opened is closed
C21_LoopOpsInOrder ==
    (mode = "frontend" /\ pc = "convert" /\ result = "running") =>
        \A n \in DOMAIN LoopRecords :
           LoopRecords[n].type = "for" =>
              /\ LoopInOrder(LoopRecords[n], converter._opcodes)
              /\ (/\ converter._pointer >= 2 * Len(converter.co.code)
                  /\ PlacesOf(StartOps(LoopRecords[n]), converter._opcodes) # {})
                 => PlacesOf(EndOps(LoopRecords[n]), converter._opcodes) # {}

\* the conversion is at the end of the code of a for loop in a for loop:
\* the ops of the inner loop stand between the start ops and the end ops
\* of the outer one
C21_Witness ==
    /\ mode = "frontend"
    /\ pc = "convert"
    /\ result = "running"
    /\ converter._pointer >= 2 * Len(converter.co.code)
    /\ Len(LoopRecords) = 2
    /\ \A n \in 1..2 : LoopRecords[n].type = "for"
    /\ \E k1 \in PlacesOf(StartOps(LoopRecords[1]), converter._opcodes) :
       \E k2 \in PlacesOf(StartOps(LoopRecords[2]), converter._opcodes) :
       \E m2 \in PlacesOf(EndOps(LoopRecords[2]), converter._opcodes) :
       \E m1 \in PlacesOf(EndOps(LoopRecords[1]), converter._opcodes) :
          k1 + 8 < k2 /\ k2 + 8 < m2 /\ m2 + 6 < m1

(***************************************************************************)
(* The jumps of the code and the labels of the branches made of them.      *)
(***************************************************************************)
JumpOps == {"JUMP_ABSOLUTE", "JUMP_FORWARD", "POP_JUMP_IF_FALSE", "POP_JUMP_IF_TRUE"}

\* the conversion is at a jump instruction
AtJump == Converting /\ Byte(converter.co.code, converter._pointer) \in JumpOps

\* the address on which the jump at the pointer lands
LandsOn == JumpTarget(converter.co.code, converter._pointer)

\* the step has made a branch of the jump: the turn did not fail, and it
\* was not the JUMP_FORWARD after a branch, which emits nothing
JumpBranched ==
    /\ AtJump
    /\ result' = "running"
    /\ _opcodes' # Begin(converter)._opcodes

\* the label that the branch made in the step has for the target of the jump
LandingLabel ==
    LET last == _opcodes'[Len(_opcodes')]
    IN IF Byte(converter.co.code, converter._pointer) = "POP_JUMP_IF_FALSE"
       THEN last.args[2] ELSE last.args[1]

\* C22: a jump landing on the start of a loop becomes a branch to the
\* continue label of that loop, and a jump landing on the end of a loop a
\* branch to the merge label of that loop, whichever loop is innermost at
\* the place of the jump
C22_JumpsToLoopLabels ==
    [][JumpBranched =>
        \A n \in DOMAIN LoopRecords :
           /\ LandsOn = LoopRecords[n].start => LandingLabel = Tok("Lc", n)
           /\ LandsOn = LoopRecords[n].end => LandingLabel = Tok("Lm", n)]_vars

\* what holds of the jumps: the remaps are those of the innermost loop at
\* the place of the jump.  A jump landing on its start becomes a branch to
\* its continue label; a jump landing on its end, or on the start or the
\* end of a loop that starts before it, becomes a branch to its merge
\* label; any other jump, and every jump outside all loops, gets the label
\* of its address
C22_InnermostLoopRemaps ==
    [][JumpBranched =>
        LET loops == Begin(converter)._loop_stack
            inner == loops[Len(loops)]
            before == {LoopRecords[k].start : k \in 1..(inner.idx - 1)}
                      \cup {LoopRecords[k].end : k \in 1..(inner.idx - 1)}
        IN IF loops # <<>> /\ LandsOn \in {inner.end} \cup before
           THEN LandingLabel = Tok("Lm", inner.idx)
           ELSE IF loops # <<>> /\ LandsOn = inner.start
           THEN LandingLabel = Tok("Lc", inner.idx)
           ELSE LandingLabel \in {Tok("", LandsOn)}
                                    \cup {Tok("Lb", n) : n \in DOMAIN LoopRecords}]_vars

\* `if x < 1:` around a for loop and nothing else was converted: the jump
\* of the `if` landed on the end of the loop from outside the loop, and the
\* branch made of it names the address of the end, not the merge label
\* that _end_loop emitted there
C22_Witness ==
    /\ mode = "frontend"
    /\ pc = "done"
    /\ result = "ok"
    /\ Len(LoopRecords) = 1
    /\ \E k \in DOMAIN _opcodes :
          /\ _opcodes[k].op = "co_branch_conditional"
          /\ _opcodes[k].args[2] = Tok("", LoopRecords[1].end)
    /\ \E k \in DOMAIN _opcodes : _opcodes[k] = Op1("co_label", Tok("Lm", 1))

(***************************************************************************)
(* The labels that the loop of _convert emits at the addresses registered  *)
(* in self._labels.                                                        *)
(***************************************************************************)
\* the pointer is at an address with a registered label that is not
\* protected, where no loop starts and the open loop does not end
AtPlainLabel ==
    LET p == converter._pointer
    IN /\ Converting
       /\ p \in DOMAIN converter._labels
       /\ Tok("int", p) \notin converter._protected_labels
       /\ ~ /\ converter._loops_to_handle # <<>>
            /\ p = Head(converter._loops_to_handle).start
       /\ ~ /\ converter._loop_stack # <<>>
            /\ p = converter._loop_stack[Len(converter._loop_stack)].end

\* `ops` begins with `part`
StartsWith(ops, part) == Len(part) <= Len(ops) /\ SubSeq(ops, 1, Len(part)) = part

\* C23: at an address with a registered label L that is not protected,
\* where neither the next loop starts nor the open loop ends, the turn
\* first emits label(L), with branch(L) before it exactly when the last op
\* is no co_branch, co_branch_conditional or co_branch_loop, and then
\* converts the instruction; so in the op list every label emitted this way
\* stands right after a branch op
C23_LabelAfterBranch ==
    /\ [][AtPlainLabel =>
            LET L == converter._labels[converter._pointer]
                last == _opcodes[Len(_opcodes)]
            IN StartsWith(_opcodes',
                   _opcodes
                   \o (IF last.op \in BranchOps THEN <<>> ELSE <<Op1("co_branch", L)>>)
                   \o <<Op1("co_label", L)>>)]_vars
    /\ [](mode = "frontend" /\ pc = "convert" =>
            \A k \in DOMAIN converter._opcodes :
               (/\ converter._opcodes[k].op = "co_label"
                /\ \E p \in DOMAIN converter._labels :
                      converter._labels[p] = converter._opcodes[k].args[1]) =>
                  /\ k > 1
                  /\ converter._opcodes[k - 1].op \in BranchOps)

\* the conversion has emitted a label right after a conditional branch,
\* without a branch of its own, and a label after a store, with the
\* implicit branch to it between them
C23_Witness ==
    /\ mode = "frontend"
    /\ pc = "convert"
    /\ result = "running"
    /\ \E k \in DOMAIN _opcodes :
          /\ k > 1
          /\ _opcodes[k].op = "co_label"
          /\ _opcodes[k].args[1].p = ""
          /\ _opcodes[k - 1].op = "co_branch_conditional"
    /\ \E k \in DOMAIN _opcodes :
          /\ k > 2
          /\ _opcodes[k].op = "co_label"
          /\ _opcodes[k].args[1].p = ""
          /\ _opcodes[k - 1] = Op1("co_branch", _opcodes[k].args[1])
          /\ _opcodes[k - 2].op = "co_store_name"

(***************************************************************************)
(* C24: the opcodes of the numeric conversions                             *)
(***************************************************************************)
\* the step of co_call that calls a scalar or vector type with one value
\* of the same shape and numeric elements
AtConversion ==
    /\ mode = "call"
    /\ Generating
    /\ ip <= Len(_opcodes)
    /\ _opcodes[ip] = Op1("co_call", Tok("int", 1))
    /\ Len(_stack) = 2
    /\ _stack[1].kind = "type"
    /\ _stack[2].kind = "value"
    /\ _stack[1].type.shape = _stack[2].type.shape
    /\ _stack[1].type.cols = _stack[2].type.cols
    /\ _stack[1].type.subtype # "bool"
    /\ _stack[2].type.subtype # "bool"

\* the opcode that converts elements of the type arg_el to the type out_el
ConversionOpcode(arg_el, out_el) ==
    IF IsFloat(out_el)
    THEN IF IsFloat(arg_el) THEN "OpFConvert"
         ELSE IF NameStartsWithU(arg_el) THEN "OpConvertUToF" ELSE "OpConvertSToF"
    ELSE IF IsFloat(arg_el)
         THEN IF NameStartsWithU(out_el) THEN "OpConvertFToU" ELSE "OpConvertFToS"
         ELSE IF NameStartsWithU(out_el) THEN "OpUConvert" ELSE "OpSConvert"

\* the conversion step emits nothing and gives back the argument when the
\* types are the same, and else one instruction with the opcode of `table`,
\* from the argument to a new value of the type called
ConvertsBy(table(_, _)) ==
    LET out_type == _stack[1].type
        arg == _stack[2]
    IN /\ result' = "running"
       /\ IF arg.type = out_type
          THEN functions' = functions /\ _stack' = <<arg>>
          ELSE /\ Len(functions') = Len(functions) + 1
               /\ SubSeq(functions', 1, Len(functions)) = functions
               /\ \E r \in {functions'[Len(functions')]} :
                     /\ r.opcode = table(arg.type.subtype, out_type.subtype)
                     /\ r.words[1] = TypeId(out_type)
                     /\ r.words[3] = Id(arg.id)
                     /\ _stack' = <<Value(r.words[2].n, out_type)>>

\* C24: a conversion between numeric scalars, or vectors of equal length,
\* emits the opcode of the table of input and output kind: OpConvertFToU
\* from float to unsigned int, OpUConvert from int to unsigned int,
\* OpConvertUToF from unsigned int to float and the signed forms otherwise;
\* a conversion to the type of the argument emits nothing and gives the
\* argument
C24_ConversionOpcodes == [][AtConversion => ConvertsBy(ConversionOpcode)]_vars

\* the opcode that the generator emits: to an Int always the signed form
EmittedOpcode(arg_el, out_el) ==
    IF IsInt(out_el) THEN (IF IsFloat(arg_el) THEN "OpConvertFToS" ELSE "OpSConvert")
    ELSE ConversionOpcode(arg_el, out_el)

\* what the generator does at the conversions
C24_SignedFormToInt == [][AtConversion => ConvertsBy(EmittedOpcode)]_vars

\* a float was converted to a u8 by OpConvertFToS
C24_Witness ==
    /\ mode = "call"
    /\ result = "running"
    /\ ip = 2
    /\ _opcodes = <<Op1("co_call", Tok("int", 1))>>
    /\ \E k \in DOMAIN functions :
          /\ functions[k].opcode = "OpConvertFToS"
          /\ functions[k].words[1] = TypeId(Scalar("u8"))
          /\ functions[k].words[3] = Id(2)
    /\ _stack # <<>>
    /\ _stack[1].type = Scalar("u8")

(***************************************************************************)
(* C25: a float scalar and a float vector under add, sub and div           *)
(***************************************************************************)
\* the step of co_binop with add, sub or div on a float scalar and a float
\* vector, in either order
AtScalarVectorOp ==
    /\ mode = "binop"
    /\ Generating
    /\ ip <= Len(_opcodes)
    /\ _opcodes[ip].op = "co_binop"
    /\ _opcodes[ip].args[1] \in {Str("add"), Str("sub"), Str("div")}
    /\ Len(_stack) >= 2
    /\ \A k \in {Len(_stack) - 1, Len(_stack)} :
          _stack[k].kind = "value" /\ _stack[k].type.subtype = "float"
    /\ {_stack[Len(_stack) - 1].type.shape, _stack[Len(_stack)].type.shape}
         = {"scalar", "vector"}

\* the ids of the vectors that the instructions `emitted` construct of
\* `length` times the scalar
BroadcastsOf(emitted, scalar, vector_type) ==
    {emitted[k].words[2] : k \in
        {k \in DOMAIN emitted :
            /\ emitted[k].opcode = "OpCompositeConstruct"
            /\ emitted[k].words[1] = TypeId(vector_type)
            /\ SubSeq(emitted[k].words, 3, Len(emitted[k].words))
                 = [j \in 1..vector_type.cols |-> Id(scalar.id)]}}

\* C25: add, sub and div of a float scalar and a float vector, in either
\* order, emit the float op on the broadcast of the scalar and the vector,
\* in the order of the source; the vector is never dropped
C25_BroadcastKeepsOrder ==
    [][AtScalarVectorOp =>
        LET val1 == _stack[Len(_stack) - 1]
            val2 == _stack[Len(_stack)]
            scalar == IF val1.type.shape = "scalar" THEN val1 ELSE val2
            vector == IF val1.type.shape = "scalar" THEN val2 ELSE val1
            emitted == SubSeq(functions', Len(functions) + 1, Len(functions'))
            FOPS == [add |-> "OpFAdd", sub |-> "OpFSub", div |-> "OpFDiv"]
        IN /\ result' = "running"
           /\ emitted # <<>>
           /\ \E r \in {emitted[Len(emitted)]} :
                 /\ r.opcode = FOPS[_opcodes[ip].args[1].p]
                 /\ Len(r.words) = 3
                 /\ \E b \in BroadcastsOf(emitted, scalar, vector.type) :
                       <<r.words[2], r.words[3]>>
                         = IF scalar = val1 THEN <<b, Id(vector.id)>>
                           ELSE <<Id(vector.id), b>>
                 /\ _stack' = SubSeq(_stack, 1, Len(_stack) - 2)
                                \o <<Value(r.words[1].n, vector.type)>>]_vars

\* what the generator does: the first operand of the op is the first value
\* as it is, the second the broadcast of the scalar
C25_FirstValueAndBroadcast ==
    [][AtScalarVectorOp =>
        LET val1 == _stack[Len(_stack) - 1]
            val2 == _stack[Len(_stack)]
            scalar == IF val1.type.shape = "scalar" THEN val1 ELSE val2
            vector == IF val1.type.shape = "scalar" THEN val2 ELSE val1
            emitted == SubSeq(functions', Len(functions) + 1, Len(functions'))
            FOPS == [add |-> "OpFAdd", sub |-> "OpFSub", div |-> "OpFDiv"]
        IN /\ result' = "running"
           /\ emitted # <<>>
           /\ \E r \in {emitted[Len(emitted)]} :
                 /\ r.opcode = FOPS[_opcodes[ip].args[1].p]
                 /\ Len(r.words) = 3
                 /\ r.words[2] = Id(val1.id)
                 /\ r.words[3] \in BroadcastsOf(emitted, scalar, vector.type)
                 /\ _stack' = SubSeq(_stack, 1, Len(_stack) - 2)
                                \o <<Value(r.words[1].n, vector.type)>>]_vars

\* a float scalar minus a vec2: the OpFSub has the scalar and its broadcast
\* as operands, and the vector, id 2, is in no instruction
C25_Witness ==
    /\ mode = "binop"
    /\ result = "running"
    /\ _opcodes = <<Op1("co_binop", Str("sub"))>>
    /\ ip = 2
    /\ Len(functions) >= 2
    /\ functions[Len(functions)].opcode = "OpFSub"
    /\ functions[Len(functions)].words[2] = Id(1)
    /\ functions[Len(functions) - 1].opcode = "OpCompositeConstruct"
    /\ functions[Len(functions)].words[3] = functions[Len(functions) - 1].words[2]
    /\ \A k \in DOMAIN functions : \A j \in DOMAIN functions[k].words :
          functions[k].words[j] # Id(2)
    /\ _stack # <<>>
    /\ _stack[Len(_stack)].type = Vector(2, "float")

(***************************************************************************)
(* C26: the branch tree at the end of the function                         *)
(***************************************************************************)
\* co_func_end was the last op dispatched and it did not raise
FuncEnded ==
    /\ mode \in {"stream", "program", "merge"}
    /\ ip > 1
    /\ LastOp.op = "co_func_end"
    /\ result = "running"

\* C26: whenever co_func_end succeeds, no node of the branch tree has
\* children left, and the merge placeholder of every OpSelectionMerge holds
\* the id of an OpLabel that was emitted (none holds 0)
C26_FuncEndAllMerged ==
    FuncEnded =>
        /\ \A b \in DOMAIN branches : branches[b].children = <<>>
        /\ \A j \in DOMAIN SelectionMerges :
              /\ Merged(j)
              /\ \E k \in DOMAIN functions :
                    functions[k] = Ins("OpLabel", <<Id(MergeBlock(j))>>)

\* what holds: the same when every co_branch and co_branch_conditional
\* dispatched was followed by a co_label, the start of the next block
C26_LabelAfterBranchAllMerged ==
    (/\ FuncEnded
     /\ \A k \in 1..(ip - 2) :
           _opcodes[k].op \in {"co_branch", "co_branch_conditional"}
              => _opcodes[k + 1].op = "co_label")
       => /\ \A b \in DOMAIN branches : branches[b].children = <<>>
          /\ \A j \in DOMAIN SelectionMerges :
                /\ Merged(j)
                /\ \E k \in DOMAIN functions :
                      functions[k] = Ins("OpLabel", <<Id(MergeBlock(j))>>)

\* co_func_end succeeded right after a co_branch_conditional: the root
\* has its two children and the merge placeholder holds 0
C26_Witness ==
    /\ FuncEnded
    /\ mode = "stream"
    /\ ip = 4
    /\ _opcodes[2].op = "co_branch_conditional"
    /\ branches[RootBranch].children = <<2, 3>>
    /\ Len(SelectionMerges) = 1
    /\ MergeBlock(1) = 0
    /\ functions[Len(functions)] = Ins("OpFunctionEnd", <<>>)

(***************************************************************************)
(* C27: every loop is opened and closed once                               *)
(***************************************************************************)
\* the loops of the pre-scan that the stack of open loops holds
OpenLoops(c) == {c._loop_stack[k].idx : k \in DOMAIN c._loop_stack}
\* how often the op list defines the label
TimesDefined(ops, label) ==
    Cardinality({k \in DOMAIN ops : ops[k] = Op1("co_label", label)})

\* the pointer is at the start of the next loop to handle
AtLoopStart ==
    /\ mode = "frontend"
    /\ Converting
    /\ converter._loops_to_handle # <<>>
    /\ converter._pointer = Head(converter._loops_to_handle).start

\* the pointer is at the end of the innermost open loop
AtLoopEnd ==
    /\ mode = "frontend"
    /\ Converting
    /\ converter._loop_stack # <<>>
    /\ converter._pointer = converter._loop_stack[Len(converter._loop_stack)].end

\* C27: every loop of the pre-scan is opened once, by _start_loop at its
\* start, and closed once, by _end_loop at its end, also when that end is
\* the start of the next loop; when the conversion has come to the end of
\* the code no loop is open or left to handle, and the continue and the
\* merge label of every loop have been emitted
C27_LoopsOpenedAndClosed ==
    /\ [][AtLoopStart =>
            \E loop_info \in {Head(converter._loops_to_handle)} :
               /\ loop_info.idx \notin OpenLoops(converter)
               /\ TimesDefined(_opcodes, Tok("Lh", loop_info.idx)) = 0
               /\ result' = "running" =>
                     /\ loop_info.idx \in OpenLoops(converter')
                     /\ TimesDefined(_opcodes', Tok("Lh", loop_info.idx)) = 1]_vars
    /\ [][AtLoopEnd =>
            \E loop_info \in {converter._loop_stack[Len(converter._loop_stack)]} :
               /\ loop_info.idx \notin OpenLoops(converter')
               /\ TimesDefined(_opcodes, Tok("Lm", loop_info.idx)) = 0
               /\ TimesDefined(_opcodes', Tok("Lc", loop_info.idx)) = 1
               /\ TimesDefined(_opcodes', Tok("Lm", loop_info.idx)) = 1]_vars
    /\ []((/\ mode = "frontend"
           /\ pc = "convert"
           /\ result = "running"
           /\ converter._pointer >= 2 * Len(converter.co.code)) =>
             /\ converter._loop_stack = <<>>
             /\ converter._loops_to_handle = <<>>
             /\ \A k \in DOMAIN LoopRecords :
                   /\ TimesDefined(_opcodes, Tok("Lh", LoopRecords[k].idx)) = 1
                   /\ TimesDefined(_opcodes, Tok("Lc", LoopRecords[k].idx)) = 1
                   /\ TimesDefined(_opcodes, Tok("Lm", LoopRecords[k].idx)) = 1)

\* what holds: the same, but a loop is closed at its end only when the next
\* loop does not start there
C27_UnlessNextLoopStartsThere ==
    /\ [][AtLoopStart =>
            \E loop_info \in {Head(converter._loops_to_handle)} :
               /\ loop_info.idx \notin OpenLoops(converter)
               /\ TimesDefined(_opcodes, Tok("Lh", loop_info.idx)) = 0
               /\ result' = "running" =>
                     /\ loop_info.idx \in OpenLoops(converter')
                     /\ TimesDefined(_opcodes', Tok("Lh", loop_info.idx)) = 1]_vars
    /\ [][(AtLoopEnd /\ ~AtLoopStart) =>
            \E loop_info \in {converter._loop_stack[Len(converter._loop_stack)]} :
               /\ loop_info.idx \notin OpenLoops(converter')
               /\ TimesDefined(_opcodes, Tok("Lm", loop_info.idx)) = 0
               /\ TimesDefined(_opcodes', Tok("Lc", loop_info.idx)) = 1
               /\ TimesDefined(_opcodes', Tok("Lm", loop_info.idx)) = 1]_vars
    /\ []((/\ mode = "frontend"
           /\ pc = "convert"
           /\ result = "running"
           /\ converter._pointer >= 2 * Len(converter.co.code)) =>
             /\ converter._loop_stack = <<>>
             /\ converter._loops_to_handle = <<>>
             /\ \A k \in DOMAIN LoopRecords :
                   /\ TimesDefined(_opcodes, Tok("Lh", LoopRecords[k].idx)) = 1
                   /\ TimesDefined(_opcodes, Tok("Lc", LoopRecords[k].idx)) = 1
                   /\ TimesDefined(_opcodes, Tok("Lm", LoopRecords[k].idx)) = 1)

\* two while loops back to back: at the end of the first the second was
\* started, the first is still open and its continue and merge labels
\* were not emitted, and the conversion ended there with an AssertionError
C27_Witness ==
    /\ mode = "frontend"
    /\ pc = "done"
    /\ result = "AssertionError"
    /\ Len(converter._loop_stack) = 2
    /\ converter._loop_stack[2].start = converter._loop_stack[1].end
    /\ converter._pointer = converter._loop_stack[1].end
    /\ TimesDefined(_opcodes, Tok("Lc", converter._loop_stack[1].idx)) = 0
    /\ TimesDefined(_opcodes, Tok("Lm", converter._loop_stack[1].idx)) = 0

(***************************************************************************)
(* C28: the labels of the final NSB                                        *)
(***************************************************************************)
\* the labels that the ops define, and those that branch ops name
DefinedLabels(ops) == {ops[k].args[1] : k \in {k \in DOMAIN ops : ops[k].op = "co_label"}}
BranchedLabels(ops) ==
    UNION {Range(ops[k].args) : k \in {k \in DOMAIN ops : ops[k].op \in BranchOps}}

\* C28: in the NSB of a converted function, after the three post-passes,
\* every label that a co_branch, co_branch_conditional or co_branch_loop
\* names is defined by exactly one co_label, and no label is defined twice
C28_LabelsDefinedOnce ==
    Converted =>
        /\ \A l \in BranchedLabels(_opcodes) : TimesDefined(_opcodes, l) = 1
        /\ \A l \in DefinedLabels(_opcodes) : TimesDefined(_opcodes, l) = 1

\* the labels of the addresses at which a loop of the pre-scan starts or ends
LoopAddressLabels ==
    UNION {{Tok("", LoopRecords[k].start), Tok("", LoopRecords[k].end)} :
             k \in DOMAIN LoopRecords}

\* what holds: no label is defined twice, and a label that is named and
\* not defined is the label of an address at which a loop starts or ends
C28_DanglingAtLoopAddresses ==
    Converted =>
        /\ \A l \in BranchedLabels(_opcodes) \ LoopAddressLabels :
              TimesDefined(_opcodes, l) = 1
        /\ \A l \in DefinedLabels(_opcodes) : TimesDefined(_opcodes, l) = 1

\* a converted function whose NSB has a conditional branch to a label that
\* no co_label defines
C28_Witness ==
    /\ Converted
    /\ _opcodes[Len(_opcodes)] = Op0("co_func_end")
    /\ \E k \in DOMAIN _opcodes :
          /\ _opcodes[k].op = "co_branch_conditional"
          /\ TimesDefined(_opcodes, _opcodes[k].args[2]) = 0

(***************************************************************************)
(* C29: the assertion of emit                                              *)
(***************************************************************************)
\* The top of the turn raises an AssertionError other than the one of emit
\* only in _start_loop of a for loop (the asserts on FOR_ITER and
\* STORE_FAST); there the co_branch follows a co_store_name.
AtForLoopStart ==
    /\ converter._loops_to_handle # <<>>
    /\ converter._pointer = Head(converter._loops_to_handle).start
    /\ Head(converter._loops_to_handle).type = "for"

\* the turn fails in the assertion of emit, at its top (the start of a
\* while loop) or in _op_jump_absolute, which has no other assertion
EmitAssertionFails ==
    /\ mode = "frontend"
    /\ Converting
    /\ \E c \in {Begin(converter)} :
          \/ c.result = "AssertionError" /\ ~AtForLoopStart
          \/ /\ c.result = "running"
             /\ Byte(converter.co.code, converter._pointer) = "JUMP_ABSOLUTE"
             /\ result' = "AssertionError"

\* C29: the assertion of emit always holds: no turn of the conversion
\* emits a co_branch when the last op is a co_branch, co_branch_conditional
\* or co_branch_loop, be it for a JUMP_ABSOLUTE, for the ops of _start_loop
\* or for the implicit branch before a label
C29_EmitAssertionHolds == [][~EmitAssertionFails]_vars

\* the conversion ended with the AssertionError of emit at the start of a
\* while loop: the last op is the branch of the jump before it, and the
\* header label of the loop was not emitted
C29_Witness ==
    /\ mode = "frontend"
    /\ pc = "done"
    /\ result = "AssertionError"
    /\ _opcodes[Len(_opcodes)].op = "co_branch"
    /\ converter._loop_stack # <<>>
    /\ \E loop_info \in {converter._loop_stack[Len(converter._loop_stack)]} :
          /\ loop_info.type = "while"
          /\ loop_info.start = converter._pointer
          /\ TimesDefined(_opcodes, Tok("Lh", loop_info.idx)) = 0

\* what holds: the assertion fails only in _start_loop at the start of a
\* while loop, never for a JUMP_ABSOLUTE or an implicit branch
C29_UnlessWhileLoopStarts == [][EmitAssertionFails => AtLoopStart]_vars

(***************************************************************************)
(* C30: the post-passes terminate                                          *)
(***************************************************************************)
\* the conditional branches of an op list
CountConditionals(ops) ==
    Cardinality({k \in DOMAIN ops : ops[k].op = "co_branch_conditional"})

\* a rewrite of _fix_or_control_flow leaves one conditional branch less
RewriteRemovesOne(ops) ==
    \A block \in {_get_block_to_resolve(ops)} :
       block # <<>> =>
          CountConditionals(ResolveBlock(ops, block)) = CountConditionals(ops) - 1

\* C30: the post-passes terminate on every op list: _fix_empty_blocks with
\* its _replace_labels returns, also when the empty blocks it removes
\* branch to one another in a cycle, and every rewrite of
\* _fix_or_control_flow removes one conditional branch, so that its loop
\* ends
C30_PostPassesTerminate ==
    mode = "blocks" =>
        /\ pc = "fixed" => result # "endless loop"
        /\ pc = "build" => RewriteRemovesOne(_opcodes)

\* what holds: the rewrites remove a conditional branch each, and
\* _fix_empty_blocks returns exactly when no chain of empty blocks with
\* unprotected labels leads back into these blocks for ever
C30_UnlessEmptyBlocksCycle ==
    /\ [](mode = "blocks" /\ pc = "build" => RewriteRemovesOne(_opcodes))
    /\ [][(mode = "blocks" /\ pc = "build" /\ pc' = "fixed") =>
            LET empty == EmptyBlocks(_opcodes, converter._protected_labels)
                cycle == \E label \in DOMAIN empty :
                            FinalTarget(empty, label, Cardinality(DOMAIN empty))
                              \in DOMAIN empty
            IN IF cycle THEN result' = "endless loop" ELSE result' = "running"]_vars

\* _fix_empty_blocks has removed the empty blocks after L1, whose
\* branches led back into them, and did not return from _replace_labels:
\* the block left branches to a label that is gone
C30_Witness ==
    /\ mode = "blocks"
    /\ pc = "fixed"
    /\ result = "endless loop"
    /\ _opcodes = <<Op1("co_label", Lab(1)), Op0("co_pop_top"), Op1("co_branch", Lab(2))>>

====
